---- MODULE Spec2Model ----
(***************************************************************************)
(* Model of the expert remediation engine of rajtupakula/aik8s:            *)
(*   src/src/agent/utils.py                     SafetyValidator            *)
(*   src/src/agent/issue_history_manager.py     IssueHistoryManager        *)
(*   src/src/agent/expert_remediation_engine.py ExpertRemediationEngine    *)
(* Python strings are sequences of one-character strings, so that lower(), *)
(* strip(), startswith(), replace(), the `in` substring test and re.search *)
(* are computed on the characters, as the code computes them.              *)
(***************************************************************************)
EXTENDS Integers, Sequences, FiniteSets, TLC

(***************************************************************************)
(* Text                                                                    *)
(***************************************************************************)
UpperChars ==
  <<"A","B","C","D","E","F","G","H","I","J","K","L","M",
    "N","O","P","Q","R","S","T","U","V","W","X","Y","Z">>

LowerChars ==
  <<"a","b","c","d","e","f","g","h","i","j","k","l","m",
    "n","o","p","q","r","s","t","u","v","w","x","y","z">>

\* str.lower() on one character
LowerChar(c) ==
  IF \E i \in 1..Len(UpperChars) : UpperChars[i] = c
  THEN LowerChars[CHOOSE i \in 1..Len(UpperChars) : UpperChars[i] = c]
  ELSE c

\* str.lower()
lower(s) == [i \in 1..Len(s) |-> LowerChar(s[i])]

\* the characters str.strip() removes and the regex class \s matches
WhitespaceChars == {" ", "\t", "\n", "\r", "\f"}

\* str.strip()
strip(s) ==
  LET keep == {i \in 1..Len(s) : s[i] \notin WhitespaceChars}
  IN IF keep = {} THEN <<>>
     ELSE LET first == CHOOSE i \in keep : \A j \in keep : i <= j
              last  == CHOOSE i \in keep : \A j \in keep : j <= i
          IN SubSeq(s, first, last)

\* s.startswith(prefix)
startswith(s, prefix) ==
  /\ Len(prefix) <= Len(s)
  /\ SubSeq(s, 1, Len(prefix)) = prefix

\* sub in s
contains(sub, s) ==
  \E i \in 1..(Len(s) - Len(sub) + 1) : SubSeq(s, i, i + Len(sub) - 1) = sub

\* s.replace(old, new) for one-character old and new
replace(s, old, new) == [i \in 1..Len(s) |-> IF s[i] = old THEN new ELSE s[i]]

(***************************************************************************)
(* Regular expressions, as re.search(pattern, text, re.IGNORECASE) uses    *)
(* them.  A compiled pattern is a sequence of atoms; an atom is a          *)
(* character class (cls, or its complement when neg) with a quantifier q:  *)
(* "1" (exactly one), "+" (one or more), "*" (zero or more).               *)
(***************************************************************************)
Lit(s) == [i \in 1..Len(s) |-> [cls |-> {LowerChar(s[i])}, neg |-> FALSE, q |-> "1"]]

OneOf(chars) == << [cls |-> chars, neg |-> FALSE, q |-> "1"] >>

\* \s+
SpacePlus == << [cls |-> WhitespaceChars, neg |-> FALSE, q |-> "+"] >>

\* \s*
SpaceStar == << [cls |-> WhitespaceChars, neg |-> FALSE, q |-> "*"] >>

\* .*   (the dot matches every character but the newline)
AnyStar == << [cls |-> {"\n"}, neg |-> TRUE, q |-> "*"] >>

\* one character against an atom, case-insensitively
AtomMatches(a, c) == (LowerChar(c) \in a.cls) # a.neg

RECURSIVE MatchHere(_, _, _, _)
\* atoms k.. of pattern p match a prefix of text s[i..]
MatchHere(p, k, s, i) ==
  IF k > Len(p) THEN TRUE
  ELSE LET a == p[k]
           one == i <= Len(s) /\ AtomMatches(a, s[i])
       IN CASE a.q = "1" -> one /\ MatchHere(p, k + 1, s, i + 1)
            [] a.q = "+" -> one /\ (MatchHere(p, k + 1, s, i + 1) \/ MatchHere(p, k, s, i + 1))
            [] a.q = "*" -> MatchHere(p, k + 1, s, i) \/ (one /\ MatchHere(p, k, s, i + 1))

\* re.search(p, s, re.IGNORECASE) is not None
re_search(p, s) == \E i \in 1..(Len(s) + 1) : MatchHere(p, 1, s, i)

(***************************************************************************)
(* SafetyValidator (utils.py)                                              *)
(***************************************************************************)
dangerous_patterns ==
  << (* r'rm\s+-rf\s+/' *) Lit(<<"r","m">>) \o SpacePlus \o Lit(<<"-","r","f">>) \o SpacePlus \o Lit(<<"/">>),
     (* r'dd\s+if=.*of=/dev/' *) Lit(<<"d","d">>) \o SpacePlus \o Lit(<<"i","f","=">>) \o AnyStar \o Lit(<<"o","f","=","/","d","e","v","/">>),
     (* r'mkfs\.' *) Lit(<<"m","k","f","s",".">>),
     (* r'fdisk' *) Lit(<<"f","d","i","s","k">>),
     (* r'parted' *) Lit(<<"p","a","r","t","e","d">>),
     (* r'shutdown' *) Lit(<<"s","h","u","t","d","o","w","n">>),
     (* r'reboot' *) Lit(<<"r","e","b","o","o","t">>),
     (* r'halt' *) Lit(<<"h","a","l","t">>),
     (* r'init\s+[06]' *) Lit(<<"i","n","i","t">>) \o SpacePlus \o OneOf({"0","6"}),
     (* r'killall\s+-9' *) Lit(<<"k","i","l","l","a","l","l">>) \o SpacePlus \o Lit(<<"-","9">>),
     (* r':\(\)\{\s*:\|:&\s*\};:' *) Lit(<<":","(",")","{">>) \o SpaceStar \o Lit(<<":","|",":","&">>) \o SpaceStar \o Lit(<<"}",";",":">>),
     (* r'chmod\s+777\s+/' *) Lit(<<"c","h","m","o","d">>) \o SpacePlus \o Lit(<<"7","7","7">>) \o SpacePlus \o Lit(<<"/">>),
     (* r'chown\s+.*\s+/' *) Lit(<<"c","h","o","w","n">>) \o SpacePlus \o AnyStar \o SpacePlus \o Lit(<<"/">>) >>

safe_prefixes ==
  << (* 'kubectl get' *) <<"k","u","b","e","c","t","l"," ","g","e","t">>,
     (* 'kubectl describe' *) <<"k","u","b","e","c","t","l"," ","d","e","s","c","r","i","b","e">>,
     (* 'kubectl logs' *) <<"k","u","b","e","c","t","l"," ","l","o","g","s">>,
     (* 'docker ps' *) <<"d","o","c","k","e","r"," ","p","s">>,
     (* 'docker images' *) <<"d","o","c","k","e","r"," ","i","m","a","g","e","s">>,
     (* 'ps aux' *) <<"p","s"," ","a","u","x">>,
     (* 'top' *) <<"t","o","p">>,
     (* 'free' *) <<"f","r","e","e">>,
     (* 'df' *) <<"d","f">>,
     (* 'du' *) <<"d","u">>,
     (* 'mount' *) <<"m","o","u","n","t">>,
     (* 'ip addr' *) <<"i","p"," ","a","d","d","r">>,
     (* 'ping' *) <<"p","i","n","g">>,
     (* 'netstat' *) <<"n","e","t","s","t","a","t">>,
     (* 'ss' *) <<"s","s">>,
     (* 'systemctl status' *) <<"s","y","s","t","e","m","c","t","l"," ","s","t","a","t","u","s">>,
     (* 'journalctl' *) <<"j","o","u","r","n","a","l","c","t","l">>,
     (* 'cat' *) <<"c","a","t">>,
     (* 'less' *) <<"l","e","s","s">>,
     (* 'tail' *) <<"t","a","i","l">>,
     (* 'head' *) <<"h","e","a","d">>,
     (* 'grep' *) <<"g","r","e","p">>,
     (* 'find' *) <<"f","i","n","d">>,
     (* 'ls' *) <<"l","s">>,
     (* 'gluster volume status' *) <<"g","l","u","s","t","e","r"," ","v","o","l","u","m","e"," ","s","t","a","t","u","s">>,
     (* 'gluster peer status' *) <<"g","l","u","s","t","e","r"," ","p","e","e","r"," ","s","t","a","t","u","s">>,
     (* 'gluster volume info' *) <<"g","l","u","s","t","e","r"," ","v","o","l","u","m","e"," ","i","n","f","o">> >>

\* the levels a step declares; validate_command treats any other value as HIGH
SafetyLevels == {"SAFE", "MEDIUM", "HIGH"}

DeclaredLevels == SafetyLevels \cup {"LOW"}

\* the first loop of validate_command: some dangerous pattern is found
matches_dangerous(command) ==
  \E k \in 1..Len(dangerous_patterns) : re_search(dangerous_patterns[k], command)

\* is_safe_prefix comparing the command as typed, not lower-cased
is_safe_prefix_cased(command) ==
  \E k \in 1..Len(safe_prefixes) : startswith(strip(command), safe_prefixes[k])

\* is_safe_prefix of validate_command
is_safe_prefix(command) ==
  LET command_lower == strip(lower(command))
  IN \E k \in 1..Len(safe_prefixes) : startswith(command_lower, lower(safe_prefixes[k]))

\* validate_command looking at the safe prefixes before the dangerous patterns
validate_command_prefix_first(command, safety_level) ==
  IF \E k \in 1..Len(safe_prefixes) :
       startswith(strip(lower(command)), lower(safe_prefixes[k]))
  THEN [safe |-> TRUE, reason |-> "safe_prefix",
        risk_level |-> "SAFE", requires_confirmation |-> FALSE]
  ELSE IF \E k \in 1..Len(dangerous_patterns) : re_search(dangerous_patterns[k], command)
  THEN [safe |-> FALSE, reason |-> "dangerous_pattern",
        risk_level |-> "HIGH", requires_confirmation |-> TRUE]
  ELSE IF safety_level = "SAFE"
  THEN [safe |-> TRUE, reason |-> "marked_safe",
        risk_level |-> "SAFE", requires_confirmation |-> FALSE]
  ELSE IF safety_level = "MEDIUM"
  THEN [safe |-> TRUE, reason |-> "medium_risk",
        risk_level |-> "MEDIUM", requires_confirmation |-> TRUE]
  ELSE [safe |-> FALSE, reason |-> "high_risk",
        risk_level |-> "HIGH", requires_confirmation |-> TRUE]

\* a command that is not a str (None, a number, bytes, a list), written as a
\* tuple no string is: its one element is not a single character
cmd_not_a_str == <<"None">>

\* re.search and str.lower accept the command
is_str(command) == command # cmd_not_a_str

\* SafetyValidator.validate_command(command, safety_level); re.search raises
\* TypeError on a command that is not a str, and the except branch answers
validate_command(command, safety_level) ==
  IF ~is_str(command)
  THEN [safe |-> FALSE, reason |-> "validation_error",
        risk_level |-> "UNKNOWN", requires_confirmation |-> TRUE]
  ELSE IF matches_dangerous(command)
  THEN [safe |-> FALSE, reason |-> "dangerous_pattern",
        risk_level |-> "HIGH", requires_confirmation |-> TRUE]
  ELSE IF is_safe_prefix(command)
  THEN [safe |-> TRUE, reason |-> "safe_prefix",
        risk_level |-> "SAFE", requires_confirmation |-> FALSE]
  ELSE IF safety_level = "SAFE"
  THEN [safe |-> TRUE, reason |-> "marked_safe",
        risk_level |-> "SAFE", requires_confirmation |-> FALSE]
  ELSE IF safety_level = "MEDIUM"
  THEN [safe |-> TRUE, reason |-> "medium_risk",
        risk_level |-> "MEDIUM", requires_confirmation |-> TRUE]
  ELSE [safe |-> FALSE, reason |-> "high_risk",
        risk_level |-> "HIGH", requires_confirmation |-> TRUE]

(***************************************************************************)
(* Numbers.  Python floats that are ratios are kept exact, in units of     *)
(* 1/Scale; Scale is divisible by every denominator the model meets.       *)
(***************************************************************************)
Scale == 6 * 1000

\* a/b in units of 1/Scale
Ratio(a, b) == (a * Scale) \div b

RECURSIVE SumSeq(_)
SumSeq(s) == IF s = <<>> THEN 0 ELSE s[1] + SumSeq(Tail(s))

Range(s) == {s[i] : i \in DOMAIN s}

\* the orders in which list(set(...)) may enumerate the set S
Orderings(S) ==
  {o \in [1..Cardinality(S) -> S] : \A i, j \in 1..Cardinality(S) : o[i] = o[j] => i = j}

\* dict.get(key, default)
Get(d, key, default) == IF key \in DOMAIN d THEN d[key] ELSE default

(***************************************************************************)
(* IssueHistoryManager (issue_history_manager.py)                          *)
(* A timestamp is a whole number of hours since a Monday 00:00 UTC; the    *)
(* store is self.data without its constant system_baselines, and           *)
(* key_order is the insertion order of the issue_history dict.             *)
(***************************************************************************)
max_occurrences == 3

HoursPerDay == 24

\* the 'patterns' a signature starts with in track_issue
default_patterns ==
  [common_causes |-> <<>>, success_rate |-> 0, avg_resolution_time |-> 0,
   frequency_trend |-> "stable", seasonal_pattern |-> "none"]

\* _create_default_structure()
create_default_structure ==
  [issue_history |-> <<>>,
   key_order |-> <<>>,
   learning_analytics |->
     [total_issues_tracked |-> 0, overall_success_rate |-> 0,
      avg_resolution_time |-> 0, most_common_categories |-> <<>>]]

\* has_similar_issue(issue_id)
has_similar_issue(d, issue_id) ==
  /\ issue_id \in DOMAIN d.issue_history
  /\ Len(d.issue_history[issue_id].occurrences) > 0

\* get_pattern_history(issue_id)
get_pattern_history(d, issue_id) ==
  IF issue_id \in DOMAIN d.issue_history
  THEN d.issue_history[issue_id]
  ELSE [occurrences |-> <<>>, patterns |-> <<>>]

\* a timestamp that datetime.fromisoformat raises on, "not-a-date" say
NotADate == 0 - 1

\* datetime.fromisoformat(occ['timestamp'].replace('Z', '+00:00')) succeeds
parses(timestamp) == timestamp # NotADate

\* the frequency trend of _update_patterns
frequency_trend(occurrences) ==
  IF Len(occurrences) >= 2
  THEN LET n == Len(occurrences)
           time_diff == (occurrences[n].timestamp - occurrences[n - 1].timestamp)
                          \div HoursPerDay
       IN IF time_diff < 7 THEN "increasing"
          ELSE IF time_diff > 30 THEN "decreasing"
          ELSE "stable"
  ELSE "stable"

\* _detect_seasonal_pattern with the night test at the 0.7 of the other two
detect_seasonal_pattern_seventy(occurrences) ==
  IF Len(occurrences) < 2 THEN "none"
  ELSE IF \E i \in DOMAIN occurrences : ~parses(occurrences[i].timestamp) THEN "none"
  ELSE LET n == Len(occurrences)
           hour(i) == occurrences[i].timestamp % HoursPerDay
           weekday(i) == (occurrences[i].timestamp \div HoursPerDay) % 7
           business_hours == Cardinality({i \in 1..n : 9 <= hour(i) /\ hour(i) <= 17})
           weekends == Cardinality({i \in 1..n : weekday(i) >= 5})
           night_hours == Cardinality({i \in 1..n : hour(i) >= 22 \/ hour(i) <= 6})
       IN IF 10 * business_hours > 7 * n THEN "business_hours"
          ELSE IF 10 * weekends > 7 * n THEN "weekends"
          ELSE IF 10 * night_hours > 7 * n THEN "maintenance_windows"
          ELSE "none"

\* _detect_seasonal_pattern(occurrences)
detect_seasonal_pattern(occurrences) ==
  IF Len(occurrences) < 2 THEN "none"
  ELSE IF \E i \in DOMAIN occurrences : ~parses(occurrences[i].timestamp) THEN "none"
  ELSE LET n == Len(occurrences)
           hour(i) == occurrences[i].timestamp % HoursPerDay
           weekday(i) == (occurrences[i].timestamp \div HoursPerDay) % 7
           business_hours == Cardinality({i \in 1..n : 9 <= hour(i) /\ hour(i) <= 17})
           weekends == Cardinality({i \in 1..n : weekday(i) >= 5})
           night_hours == Cardinality({i \in 1..n : hour(i) >= 22 \/ hour(i) <= 6})
       IN IF 10 * business_hours > 7 * n THEN "business_hours"
          ELSE IF 10 * weekends > 7 * n THEN "weekends"
          ELSE IF 10 * night_hours > 5 * n THEN "maintenance_windows"
          ELSE "none"

\* the causes _update_patterns collects: the root causes other than 'Unknown'
known_causes(occurrences) ==
  {occurrences[i].root_cause : i \in {j \in DOMAIN occurrences :
                                        occurrences[j].root_cause # "Unknown"}}

\* _update_patterns(issue_id) raises, and is caught, before it assigns the
\* patterns: one of the two timestamps of the frequency trend does not parse
update_patterns_raises(occurrences) ==
  /\ Len(occurrences) >= 2
  /\ \E i \in {Len(occurrences) - 1, Len(occurrences)} : ~parses(occurrences[i].timestamp)

\* _update_patterns(issue_id) on a non-empty window; cause_order is the order
\* in which list(set(causes)) enumerates the causes
update_patterns(occurrences, cause_order) ==
  LET succeeded == SelectSeq(occurrences, LAMBDA occ : occ.success)
      successful == Len(succeeded)
      resolution_times == [i \in DOMAIN succeeded |-> succeeded[i].resolution_time]
  IN [common_causes |-> cause_order,
      success_rate |-> Ratio(successful, Len(occurrences)),
      avg_resolution_time |->
        IF resolution_times # <<>>
        THEN SumSeq(resolution_times) \div Len(resolution_times)
        ELSE 0,
      frequency_trend |-> frequency_trend(occurrences),
      seasonal_pattern |-> detect_seasonal_pattern(occurrences)]

CategoryTags ==
  << [tag |-> <<"u","b","u","n","t","u">>, category |-> "Ubuntu OS"],
     [tag |-> <<"k","8","s">>, category |-> "Kubernetes"],
     [tag |-> <<"g","l","u","s","t","e","r">>, category |-> "GlusterFS"] >>

\* the category _update_analytics counts an issue id under, or "" for none
category_of(issue_id) ==
  IF contains(CategoryTags[1].tag, issue_id) THEN CategoryTags[1].category
  ELSE IF contains(CategoryTags[2].tag, issue_id) THEN CategoryTags[2].category
  ELSE IF contains(CategoryTags[3].tag, issue_id) THEN CategoryTags[3].category
  ELSE ""

RECURSIVE FirstSeen(_)
\* the distinct elements of a sequence, in order of first appearance
FirstSeen(s) ==
  IF s = <<>> THEN <<>>
  ELSE LET r == FirstSeen(SubSeq(s, 1, Len(s) - 1))
       IN IF s[Len(s)] \in Range(r) THEN r ELSE Append(r, s[Len(s)])

RECURSIVE SortedByCountDesc(_, _)
\* sorted(keys, key=count, reverse=True): stable, larger counts first
SortedByCountDesc(keys, count) ==
  IF keys = <<>> THEN <<>>
  ELSE LET best == CHOOSE i \in DOMAIN keys :
                     /\ \A j \in DOMAIN keys : count[keys[j]] <= count[keys[i]]
                     /\ \A j \in 1..(i - 1) : count[keys[j]] < count[keys[i]]
           rest == [j \in 1..(Len(keys) - 1) |-> IF j < best THEN keys[j] ELSE keys[j + 1]]
       IN <<keys[best]>> \o SortedByCountDesc(rest, count)

\* round(a/b, 3), in units of 1/1000
Round3(a, b) == (2 * 1000 * a + b) \div (2 * b)

\* _update_analytics()
update_analytics(d) ==
  LET all_issues == d.issue_history
      ids == d.key_order
      Occs(id) == all_issues[id].occurrences
      total_occurrences == SumSeq([i \in DOMAIN ids |-> Len(Occs(ids[i]))])
      total_successful ==
        SumSeq([i \in DOMAIN ids |->
                  Len(SelectSeq(Occs(ids[i]), LAMBDA occ : occ.success))])
      Timed(id) ==
        SelectSeq(Occs(id), LAMBDA occ : occ.success /\ occ.resolution_time > 0)
      n_times == SumSeq([i \in DOMAIN ids |-> Len(Timed(ids[i]))])
      sum_times ==
        SumSeq([i \in DOMAIN ids |->
                  SumSeq([j \in DOMAIN Timed(ids[i]) |-> Timed(ids[i])[j].resolution_time])])
      categorised == SelectSeq(ids, LAMBDA id : category_of(id) # "")
      categories == FirstSeen([i \in DOMAIN categorised |-> category_of(categorised[i])])
      count == [c \in Range(categories) |->
                  Cardinality({i \in DOMAIN ids : category_of(ids[i]) = c})]
      most_common == SortedByCountDesc(categories, count)
  IN IF ids = <<>> THEN d
     ELSE [d EXCEPT !.learning_analytics =
             [total_issues_tracked |-> Len(ids),
              overall_success_rate |->
                IF total_occurrences > 0
                THEN Round3(total_successful, total_occurrences) ELSE 0,
              avg_resolution_time |-> IF n_times > 0 THEN sum_times \div n_times ELSE 0,
              most_common_categories |->
                SubSeq(most_common, 1, IF Len(most_common) < 3 THEN Len(most_common) ELSE 3)]]

\* the new_occurrence track_issue builds from occurrence_data
new_occurrence(occurrence_data, now) ==
  [timestamp |-> Get(occurrence_data, "timestamp", now),
   severity |-> Get(occurrence_data, "severity", "MEDIUM"),
   resolution_time |-> Get(occurrence_data, "resolution_time", 0),
   success |-> Get(occurrence_data, "success", FALSE),
   root_cause |-> Get(occurrence_data, "root_cause", "Unknown"),
   resolution_method |-> Get(occurrence_data, "resolution_method", "Manual"),
   confidence_score |-> Get(occurrence_data, "confidence_score", Scale \div 2)]

\* keep_last evicting one occurrence too late
keep_last_late(occurrences) ==
  IF Len(occurrences) > max_occurrences + 1
  THEN SubSeq(occurrences, Len(occurrences) - max_occurrences + 1, Len(occurrences))
  ELSE occurrences

\* keep_last keeping the first N occurrences, not the last
keep_first(occurrences) ==
  IF Len(occurrences) > max_occurrences
  THEN SubSeq(occurrences, 1, max_occurrences)
  ELSE occurrences

\* 'Keep only last N occurrences' of track_issue
keep_last(occurrences) ==
  IF Len(occurrences) > max_occurrences
  THEN SubSeq(occurrences, Len(occurrences) - max_occurrences + 1, Len(occurrences))
  ELSE occurrences

\* the window of a signature after track_issue appended one occurrence
appended_window(d, issue_id, occurrence_data, now) ==
  keep_last(Append(get_pattern_history(d, issue_id).occurrences,
                   new_occurrence(occurrence_data, now)))

\* track_issue(issue_id, occurrence_data), up to the save; cause_order is the
\* order of list(set(causes)) in _update_patterns
track_issue(d, issue_id, occurrence_data, now, cause_order) ==
  LET known == issue_id \in DOMAIN d.issue_history
      window == appended_window(d, issue_id, occurrence_data, now)
      entry == [occurrences |-> window,
                patterns |-> IF update_patterns_raises(window)
                             THEN (IF known THEN d.issue_history[issue_id].patterns
                                   ELSE default_patterns)
                             ELSE update_patterns(window, cause_order)]
      stored == [d EXCEPT
                   !.issue_history = IF known THEN [@ EXCEPT ![issue_id] = entry]
                                     ELSE @ @@ (issue_id :> entry),
                   !.key_order = IF known THEN @ ELSE Append(@, issue_id)]
  IN update_analytics(stored)

\* the orders list(set(causes)) may take for the window track_issue leaves
cause_orders(d, issue_id, occurrence_data, now) ==
  Orderings(known_causes(appended_window(d, issue_id, occurrence_data, now)))

\* the occurrence_data record_resolution builds from resolution_data
resolution_occurrence_data(resolution_data, now) ==
  [timestamp |-> Get(resolution_data, "timestamp", now),
   severity |-> Get(resolution_data, "severity", "MEDIUM"),
   resolution_time |-> Get(resolution_data, "execution_time", 0),
   success |-> Get(resolution_data, "success", FALSE),
   root_cause |-> Get(resolution_data, "root_cause", "System remediation"),
   resolution_method |-> Get(resolution_data, "resolution_method", "Automated"),
   confidence_score |-> Get(resolution_data, "confidence", Scale \div 2)]

\* record_resolution(issue_id, resolution_data), up to the save
record_resolution(d, issue_id, resolution_data, now, cause_order) ==
  track_issue(d, issue_id, resolution_occurrence_data(resolution_data, now), now, cause_order)

(***************************************************************************)
(* IssueHistoryManager.predict_root_cause                                  *)
(***************************************************************************)
\* self.learning_weights
learning_weights ==
  [success_rate |-> (4 * Scale) \div 10, frequency |-> (3 * Scale) \div 10,
   recency |-> (2 * Scale) \div 10, specificity |-> Scale \div 10]

\* the keys of cause_frequency in insertion order: the causes of the
\* successful occurrences, each at its first appearance
RECURSIVE causes_in_order(_, _)
causes_in_order(successful_occurrences, seen) ==
  IF successful_occurrences = << >> THEN << >>
  ELSE LET cause == Head(successful_occurrences).root_cause
       IN IF cause \in seen THEN causes_in_order(Tail(successful_occurrences), seen)
          ELSE <<cause>> \o causes_in_order(Tail(successful_occurrences), seen \cup {cause})

\* a recency weight of 0 for a cause absent from the last two occurrences
recency_weight_from_zero(occurrences, target_cause) ==
  LET last_two == SubSeq(occurrences, IF Len(occurrences) < 2 THEN 1 ELSE Len(occurrences) - 1,
                         Len(occurrences))
      recent_occurrences == SelectSeq(last_two, LAMBDA occ : occ.root_cause = target_cause)
      max_recent == IF Len(occurrences) < 2 THEN Len(occurrences) ELSE 2
  IN Ratio(Len(recent_occurrences), max_recent)

\* _calculate_recency_weight(occurrences, target_cause)
calculate_recency_weight(occurrences, target_cause) ==
  LET last_two == SubSeq(occurrences, IF Len(occurrences) < 2 THEN 1 ELSE Len(occurrences) - 1,
                         Len(occurrences))
      recent_occurrences == SelectSeq(last_two, LAMBDA occ : occ.root_cause = target_cause)
      max_recent == IF Len(occurrences) < 2 THEN Len(occurrences) ELSE 2
  IN IF recent_occurrences = << >> THEN Scale \div 10
     ELSE Ratio(Len(recent_occurrences), max_recent)

\* weighted_score of one cause
weighted_score(occurrences, successful_occurrences, patterns, cause) ==
  LET of_cause == SelectSeq(successful_occurrences, LAMBDA occ : occ.root_cause = cause)
      freq_weight == Ratio(Len(of_cause), Len(successful_occurrences))
      confidence_weight ==
        SumSeq([i \in DOMAIN of_cause |-> of_cause[i].confidence_score]) \div Len(of_cause)
      recency_weight == calculate_recency_weight(occurrences, cause)
  IN (freq_weight * learning_weights.frequency
      + confidence_weight * learning_weights.specificity
      + recency_weight * learning_weights.recency
      + patterns.success_rate * learning_weights.success_rate) \div Scale

\* the prediction without its cap
cap_none(score) == score

\* min(cause_scores[best_cause], 0.95)
cap(score) == IF score < (95 * Scale) \div 100 THEN score ELSE (95 * Scale) \div 100

\* predict_root_cause(issue_id); the except branch ("Prediction error", 0.1)
\* is not taken for a store written by track_issue, whose occurrences have
\* every field
predict_root_cause(d, issue_id) ==
  IF ~has_similar_issue(d, issue_id)
  THEN [cause |-> "No historical data available", confidence |-> Scale \div 10]
  ELSE LET occurrences == d.issue_history[issue_id].occurrences
           patterns == d.issue_history[issue_id].patterns
           successful_occurrences == SelectSeq(occurrences, LAMBDA occ : occ.success)
           causes == causes_in_order(successful_occurrences, {})
           score(cause) == weighted_score(occurrences, successful_occurrences, patterns, cause)
           best == CHOOSE i \in DOMAIN causes :
                     /\ \A j \in DOMAIN causes : score(causes[j]) <= score(causes[i])
                     /\ \A j \in 1..(i - 1) : score(causes[j]) < score(causes[i])
       IN IF successful_occurrences = << >>
          THEN [cause |-> "No successful resolutions in history",
                confidence |-> (2 * Scale) \div 10]
          ELSE [cause |-> causes[best], confidence |-> cap(score(causes[best]))]

(***************************************************************************)
(* Commands the validator is applied to                                    *)
(***************************************************************************)
\* "rm -rf /"
cmd_rm_root == <<"r","m"," ","-","r","f"," ","/">>
\* "RM  -RF /tmp"
cmd_rm_upper == <<"R","M"," "," ","-","R","F"," ","/","t","m","p">>
\* "ls; rm -rf /"
cmd_ls_rm == <<"l","s",";"," ","r","m"," ","-","r","f"," ","/">>
\* "cat /etc/fstab && reboot"
cmd_cat_reboot == <<"c","a","t"," ","/","e","t","c","/","f","s","t","a","b"," ","&","&"," ","r","e","b","o","o","t">>
\* "journalctl -u kubelet; halt"
cmd_journal_halt == <<"j","o","u","r","n","a","l","c","t","l"," ","-","u"," ","k","u","b","e","l","e","t",";"," ","h","a","l","t">>
\* "kubectl get pods"
cmd_get_pods == <<"k","u","b","e","c","t","l"," ","g","e","t"," ","p","o","d","s">>
\* "KUBECTL GET pods"
cmd_get_pods_upper == <<"K","U","B","E","C","T","L"," ","G","E","T"," ","p","o","d","s">>
\* "  kubectl describe pod x"
cmd_describe_padded == <<" "," ","k","u","b","e","c","t","l"," ","d","e","s","c","r","i","b","e"," ","p","o","d"," ","x">>
\* "kubectl delete pod x"
cmd_delete_pod == <<"k","u","b","e","c","t","l"," ","d","e","l","e","t","e"," ","p","o","d"," ","x">>
\* "systemctl restart nginx"
cmd_restart == <<"s","y","s","t","e","m","c","t","l"," ","r","e","s","t","a","r","t"," ","n","g","i","n","x">>
\* "sudo systemctl restart nginx"
cmd_sudo_restart == <<"s","u","d","o"," ","s","y","s","t","e","m","c","t","l"," ","r","e","s","t","a","r","t"," ","n","g","i","n","x">>
\* "df -h"
cmd_df == <<"d","f"," ","-","h">>
\* "dd if=/dev/zero of=/dev/sda"
cmd_dd == <<"d","d"," ","i","f","=","/","d","e","v","/","z","e","r","o"," ","o","f","=","/","d","e","v","/","s","d","a">>
\* "mkfs.ext4 /dev/sdb1"
cmd_mkfs == <<"m","k","f","s",".","e","x","t","4"," ","/","d","e","v","/","s","d","b","1">>
\* "init 6"
cmd_init6 == <<"i","n","i","t"," ","6">>
\* "chmod 777 /"
cmd_chmod == <<"c","h","m","o","d"," ","7","7","7"," ","/">>
\* "chown root /etc"
cmd_chown == <<"c","h","o","w","n"," ","r","o","o","t"," ","/","e","t","c">>
\* "rm -rf ./cache"
cmd_rm_cache == <<"r","m"," ","-","r","f"," ",".","/","c","a","c","h","e">>
\* "killall -9 nginx"
cmd_killall == <<"k","i","l","l","a","l","l"," ","-","9"," ","n","g","i","n","x">>
\* ":(){ :|:& };:"
cmd_forkbomb == <<":","(",")","{"," ",":","|",":","&"," ","}",";",":">>
\* "gluster volume heal gv0"
cmd_heal == <<"g","l","u","s","t","e","r"," ","v","o","l","u","m","e"," ","h","e","a","l"," ","g","v","0">>
\* "ssh node1 uptime"
cmd_ssh == <<"s","s","h"," ","n","o","d","e","1"," ","u","p","t","i","m","e">>
\* "find /var -delete"
cmd_find_delete == <<"f","i","n","d"," ","/","v","a","r"," ","-","d","e","l","e","t","e">>
\* "fdisk -l"
cmd_fdisk == <<"f","d","i","s","k"," ","-","l">>
\* "parted -l"
cmd_parted == <<"p","a","r","t","e","d"," ","-","l">>
\* "kubectl logs x; shutdown"
cmd_logs_shutdown == <<"k","u","b","e","c","t","l"," ","l","o","g","s"," ","x",";"," ","s","h","u","t","d","o","w","n">>
\* "docker restart web"
cmd_docker_restart == <<"d","o","c","k","e","r"," ","r","e","s","t","a","r","t"," ","w","e","b">>

Commands ==
  { cmd_rm_root, cmd_rm_upper, cmd_ls_rm, cmd_cat_reboot, cmd_journal_halt,
    cmd_get_pods, cmd_get_pods_upper, cmd_describe_padded, cmd_delete_pod,
    cmd_restart, cmd_sudo_restart, cmd_df, cmd_dd, cmd_mkfs, cmd_init6,
    cmd_chmod, cmd_chown, cmd_rm_cache, cmd_killall, cmd_forkbomb, cmd_heal,
    cmd_ssh, cmd_find_delete, cmd_fdisk, cmd_parted, cmd_logs_shutdown,
    cmd_docker_restart, cmd_not_a_str }

None == [none |-> TRUE]

(***************************************************************************)
(* Bounds and inputs of the history store                                  *)
(***************************************************************************)
\* occurrences recorded in one run of the history store
MaxRecorded == 4

\* the clock stops here (hours)
MaxNow == 2

\* "kubernetes_pod_crash"
id_kubernetes_pod_crash ==
  <<"k","u","b","e","r","n","e","t","e","s","_","p","o","d","_","c","r","a","s","h">>

\* "pod_crash"
id_pod_crash == <<"p","o","d","_","c","r","a","s","h">>

\* "k8s_pod_crash"
id_k8s_pod_crash == <<"k","8","s","_","p","o","d","_","c","r","a","s","h">>

\* "ubuntu_disk_space_issues"
id_ubuntu_disk_space_issues ==
  <<"u","b","u","n","t","u","_","d","i","s","k","_","s","p","a","c","e","_",
    "i","s","s","u","e","s">>

HistoryIds == {id_k8s_pod_crash, id_ubuntu_disk_space_issues}

\* occurrence_data of track_issue callers: timestamps 3, 15 and 45 days after
\* hour 10 of day 0, in and out of order, and one that leaves the timestamp
\* (and everything else) to the defaults
OccurrenceInputs ==
  { [timestamp |-> 45 * HoursPerDay + 10, success |-> TRUE, root_cause |-> "oom",
     resolution_time |-> 4],
    [timestamp |-> 3 * HoursPerDay + 10, success |-> FALSE],
    << >> }

\* resolution_data of record_resolution callers
ResolutionInputs ==
  { [timestamp |-> 15 * HoursPerDay + 10, success |-> TRUE, execution_time |-> 7,
     confidence |-> Scale] }

(***************************************************************************)
(* ExpertRemediationEngine (expert_remediation_engine.py)                  *)
(* A confidence is a whole number of 1/Scale; the catalog is the content   *)
(* of the patterns file, in file order.                                    *)
(***************************************************************************)
\* "Kubernetes"
cat_kubernetes == <<"K","u","b","e","r","n","e","t","e","s">>

\* "Ubuntu OS"
cat_ubuntu_os == <<"U","b","u","n","t","u"," ","O","S">>

\* "GlusterFS"
cat_glusterfs == <<"G","l","u","s","t","e","r","F","S">>

\* "Disk Space Issues"
name_disk_space_issues == <<"D","i","s","k"," ","S","p","a","c","e"," ","I","s","s","u","e","s">>

\* "rm -rf /var/tmp/cache"
cmd_rm_var == <<"r","m"," ","-","r","f"," ","/","v","a","r","/","t","m","p","/","c","a","c","h","e">>

\* load_knowledge_base(patterns_file): the patterns of the file, keyed and
\* ordered as the file lists them; a regex is kept with its source text
knowledge_base ==
  <<
     [key |-> <<"k","u","b","e","r","n","e","t","e","s","_","p","o","d","_","c","r","a","s","h">>,
      id |-> 1,
      category |-> cat_kubernetes,
      name |-> <<"P","o","d"," ","C","r","a","s","h">>,
      keywords |-> << <<"p","o","d">>, <<"c","r","a","s","h">> >>,
      regex_patterns |->
        << [src |-> "crash\\s*loop", atoms |-> Lit(<<"c","r","a","s","h">>) \o SpaceStar \o Lit(<<"l","o","o","p">>)],
           [src |-> "pod.*restart", atoms |-> Lit(<<"p","o","d">>) \o AnyStar \o Lit(<<"r","e","s","t","a","r","t">>)] >>,
      severity |-> "HIGH",
      confidence_base |-> (3 * Scale) \div 10,
      remediation_steps |->
        << [command |-> cmd_get_pods, safety_level |-> "SAFE"],
           [command |-> cmd_delete_pod, safety_level |-> "MEDIUM"],
           [command |-> cmd_restart, safety_level |-> "HIGH"] >>],
     [key |-> <<"d","i","s","k","_","s","p","a","c","e">>,
      id |-> 2,
      category |-> cat_ubuntu_os,
      name |-> name_disk_space_issues,
      keywords |-> << <<"d","i","s","k">>, <<"s","p","a","c","e">>, <<"f","u","l","l">> >>,
      regex_patterns |->
        << [src |-> "no\\s+space", atoms |-> Lit(<<"n","o">>) \o SpacePlus \o Lit(<<"s","p","a","c","e">>)],
           [src |-> "disk.*full", atoms |-> Lit(<<"d","i","s","k">>) \o AnyStar \o Lit(<<"f","u","l","l">>)] >>,
      severity |-> "MEDIUM",
      confidence_base |-> (2 * Scale) \div 10,
      remediation_steps |->
        << [command |-> cmd_df, safety_level |-> "SAFE"],
           [command |-> cmd_sudo_restart, safety_level |-> "SAFE"],
           [command |-> cmd_rm_var, safety_level |-> "SAFE"] >>],
     [key |-> <<"k","8","s","_","p","o","d","_","p","e","n","d","i","n","g">>,
      id |-> 3,
      category |-> cat_kubernetes,
      name |-> <<"P","o","d"," ","P","e","n","d","i","n","g">>,
      keywords |-> << <<"P","o","d">>, <<"p","e","n","d","i","n","g">> >>,
      regex_patterns |->
        << [src |-> "pending", atoms |-> Lit(<<"p","e","n","d","i","n","g">>)],
           [src |-> "unschedulable", atoms |-> Lit(<<"u","n","s","c","h","e","d","u","l","a","b","l","e">>)] >>,
      severity |-> "MEDIUM",
      confidence_base |-> (3 * Scale) \div 10,
      remediation_steps |->
        << [command |-> cmd_describe_padded, safety_level |-> "HIGH"],
           [command |-> cmd_delete_pod, safety_level |-> "SAFE"] >>]
  >>

\* confidence_adjustments['historical_match']
historical_match == (15 * Scale) \div 100

\* the minimum confidence threshold of recognize_issue_pattern
confidence_threshold == Scale \div 2

\* s.lower().replace(' ', '_')
slug(s) == replace(lower(s), " ", "_")

\* the pattern_id _calculate_confidence looks up in the history
signature_id(pattern) == slug(pattern.category) \o <<"_">> \o slug(pattern.name)

\* the pattern_id _update_learning records under
learning_id(pattern_name) == slug(pattern_name)

\* the truth value of a system_context: None and {} are false
is_given(system_context) == system_context # None /\ DOMAIN system_context # {}

\* _calculate_context_relevance with 0.05 for the disk usage signal too
context_relevance_all_twentieths(pattern, system_context) ==
  LET relevance ==
        IF pattern.category = cat_kubernetes
        THEN (IF Get(system_context, "kubernetes_available", FALSE)
              THEN Scale \div 20 ELSE 0)
             + (IF Get(system_context, "pod_errors", 0) > 0
                   /\ contains(<<"p","o","d">>, lower(pattern.name))
                THEN Scale \div 20 ELSE 0)
        ELSE IF pattern.category = cat_ubuntu_os
        THEN (IF "os_type" \in DOMAIN system_context /\ system_context.os_type = "ubuntu"
              THEN Scale \div 20 ELSE 0)
             + (IF pattern.name = name_disk_space_issues
                   /\ Get(system_context, "disk_usage", 0) > 80
                THEN Scale \div 20 ELSE 0)
        ELSE IF pattern.category = cat_glusterfs
        THEN (IF Get(system_context, "gluster_available", FALSE)
              THEN Scale \div 20 ELSE 0)
        ELSE 0
  IN IF relevance > Scale \div 10 THEN Scale \div 10 ELSE relevance

\* _calculate_context_relevance(pattern, system_context)
calculate_context_relevance(pattern, system_context) ==
  LET relevance ==
        IF pattern.category = cat_kubernetes
        THEN (IF Get(system_context, "kubernetes_available", FALSE)
              THEN Scale \div 20 ELSE 0)
             + (IF Get(system_context, "pod_errors", 0) > 0
                   /\ contains(<<"p","o","d">>, lower(pattern.name))
                THEN Scale \div 20 ELSE 0)
        ELSE IF pattern.category = cat_ubuntu_os
        THEN (IF "os_type" \in DOMAIN system_context /\ system_context.os_type = "ubuntu"
              THEN Scale \div 20 ELSE 0)
             + (IF pattern.name = name_disk_space_issues
                   /\ Get(system_context, "disk_usage", 0) > 80
                THEN Scale \div 10 ELSE 0)
        ELSE IF pattern.category = cat_glusterfs
        THEN (IF Get(system_context, "gluster_available", FALSE)
              THEN Scale \div 20 ELSE 0)
        ELSE 0
  IN IF relevance > Scale \div 10 THEN Scale \div 10 ELSE relevance

\* [kw for kw in pattern.keywords if kw.lower() in user_input]
matched_keywords(pattern, user_input) ==
  SelectSeq(pattern.keywords, LAMBDA kw : contains(lower(kw), user_input))

\* the regex_patterns re.search finds in user_input, re.IGNORECASE
matched_regex(pattern, user_input) ==
  SelectSeq(pattern.regex_patterns, LAMBDA regex : re_search(regex.atoms, user_input))

\* the historical boost looked up under the catalog key of the pattern
historical_boost_by_key(d, pattern) ==
  IF has_similar_issue(d, pattern.key) THEN historical_match ELSE 0

\* the historical boost of _calculate_confidence
historical_boost(d, pattern) ==
  IF has_similar_issue(d, signature_id(pattern)) THEN historical_match ELSE 0

\* the final confidence without the min(1.0, ...)
uncapped(confidence) == confidence

\* min(1.0, confidence)
capped(confidence) == IF confidence > Scale THEN Scale ELSE confidence

\* _calculate_confidence(pattern, user_input, system_context), user_input
\* being the lowered text
calculate_confidence(d, pattern, user_input, system_context) ==
  LET base_confidence == pattern.confidence_base
      keyword_matches == Len(matched_keywords(pattern, user_input))
      keyword_score == (keyword_matches * 4 * Scale) \div (10 * Len(pattern.keywords))
      regex_matches == Len(matched_regex(pattern, user_input))
      regex_score == (regex_matches * 3 * Scale) \div (10 * Len(pattern.regex_patterns))
      context_boost == IF is_given(system_context)
                       THEN calculate_context_relevance(pattern, system_context)
                       ELSE 0
  IN capped(base_confidence + keyword_score + regex_score
            + historical_boost(d, pattern) + context_boost)

\* what recognize_issue_pattern keeps of get_pattern_history(pattern_id): the
\* stored dict itself when the store has the key, else a new empty one
history_context(d, pattern_id) ==
  IF pattern_id \in DOMAIN d.issue_history
  THEN [live |-> TRUE, issue_id |-> pattern_id, value |-> << >>]
  ELSE [live |-> FALSE, issue_id |-> pattern_id, value |-> get_pattern_history(d, pattern_id)]

\* the dict a historical_context refers to, as it reads now
current(d, historical_context) ==
  IF historical_context.live
  THEN d.issue_history[historical_context.issue_id]
  ELSE historical_context.value

\* _predict_root_cause(pattern_id, historical_context, system_context): the
\* parts the returned sentence is made of
predict_root_cause_text(historical_context) ==
  LET patterns == historical_context.patterns
      common_causes == Get(patterns, "common_causes", << >>)
  IN IF DOMAIN patterns = {} THEN [text |-> "No historical data available for prediction"]
     ELSE IF common_causes = << >>
     THEN [text |-> "Historical data insufficient for prediction"]
     ELSE [text |-> "Most likely cause",
           primary_cause |-> common_causes[1],
           success_rate |-> Get(patterns, "success_rate", 0),
           alternatives |-> Tail(common_causes)]

\* the MatchResult recognize_issue_pattern builds for knowledge_base[k]
new_match_result(d, k, confidence, user_input_lower) ==
  LET pattern == knowledge_base[k]
      historical_context == history_context(d, pattern.key)
  IN [pattern |-> k,
      confidence |-> confidence,
      matched_keywords |-> matched_keywords(pattern, user_input_lower),
      matched_regex |-> [i \in DOMAIN matched_regex(pattern, user_input_lower) |->
                           matched_regex(pattern, user_input_lower)[i].src],
      historical_context |-> historical_context,
      root_cause_prediction |-> predict_root_cause_text(current(d, historical_context))]

\* the comparison of the loop with >= in place of the first >
beats_or_ties(confidence, highest_confidence) ==
  confidence >= highest_confidence /\ confidence > confidence_threshold

\* confidence > highest_confidence and confidence > 0.5
beats(confidence, highest_confidence) ==
  confidence > highest_confidence /\ confidence > confidence_threshold

RECURSIVE recognize_from(_, _, _, _, _, _)
\* the loop of recognize_issue_pattern from the k-th pattern on
recognize_from(d, user_input_lower, system_context, k, best_match, highest_confidence) ==
  IF k > Len(knowledge_base) THEN best_match
  ELSE LET confidence ==
             calculate_confidence(d, knowledge_base[k], user_input_lower, system_context)
       IN IF beats(confidence, highest_confidence)
          THEN recognize_from(d, user_input_lower, system_context, k + 1,
                              new_match_result(d, k, confidence, user_input_lower), confidence)
          ELSE recognize_from(d, user_input_lower, system_context, k + 1,
                              best_match, highest_confidence)

\* recognize_issue_pattern(user_input, system_context)
recognize_issue_pattern(d, user_input, system_context) ==
  recognize_from(d, lower(user_input), system_context, 1, None, 0)

\* the seconds a timed out command is charged
timeout_seconds == 30

\* what subprocess.run can come to: exit 0, another exit code, TimeoutExpired,
\* or another exception, with the seconds it took
ExecutorOutcomes ==
  { [status |-> "completed", output |-> "stdout", execution_time |-> 1],
    [status |-> "failed", output |-> "stderr", execution_time |-> 2],
    [status |-> "timeout", output |-> "Command execution timed out after 30 seconds",
     execution_time |-> timeout_seconds],
    [status |-> "error", output |-> "exception", execution_time |-> 0] }

\* "sudo"
sudo == <<"s","u","d","o">>

\* an executor without the sudo test
is_sudo_never(command) == FALSE

\* command.startswith('sudo')
is_sudo(command) == startswith(command, sudo)

\* _execute_command_safely(command), outcome being what subprocess.run comes
\* to; run tells whether subprocess.run was called
execute_command_safely(command, outcome) ==
  IF is_sudo(command)
  THEN [status |-> "skipped", output |-> "Sudo commands require manual execution",
        execution_time |-> 0, run |-> FALSE]
  ELSE [status |-> outcome.status, output |-> outcome.output,
        execution_time |-> outcome.execution_time, run |-> TRUE]

\* step.update(execution_result)
updated(step, execution_result) ==
  [step EXCEPT !.status = execution_result.status,
               !.output = execution_result.output,
               !.execution_time = execution_result.execution_time]

\* an assessment that looks at HIGH steps only
assess_overall_safety_high_only(steps) ==
  LET safe_steps == Len(SelectSeq(steps, LAMBDA step : step.safety_check.safe))
      high_risk_steps == SelectSeq(steps, LAMBDA step : step.safety_level = "HIGH")
  IN [overall_risk |-> IF high_risk_steps # << >> THEN "HIGH" ELSE "LOW",
      safe_steps_ratio |-> IF Len(steps) > 0 THEN Ratio(safe_steps, Len(steps)) ELSE 0,
      requires_confirmation |-> Len(high_risk_steps) > 0,
      auto_executable_steps |-> safe_steps,
      manual_steps |-> Len(high_risk_steps)]

\* _assess_overall_safety(steps)
assess_overall_safety(steps) ==
  LET safe_steps == Len(SelectSeq(steps, LAMBDA step : step.safety_check.safe))
      high_risk_steps == SelectSeq(steps, LAMBDA step : step.safety_level = "HIGH")
      medium_risk_steps == SelectSeq(steps, LAMBDA step : step.safety_level = "MEDIUM")
  IN [overall_risk |-> IF high_risk_steps # << >> THEN "HIGH"
                       ELSE IF medium_risk_steps # << >> THEN "MEDIUM" ELSE "LOW",
      safe_steps_ratio |-> IF Len(steps) > 0 THEN Ratio(safe_steps, Len(steps)) ELSE 0,
      requires_confirmation |-> Len(medium_risk_steps \o high_risk_steps) > 0,
      auto_executable_steps |-> safe_steps,
      manual_steps |-> Len(high_risk_steps \o medium_risk_steps)]

\* the auto-execution test without the declared level
auto_executes_any_level(auto_execute, safety_result, safety_level) ==
  auto_execute /\ safety_result.safe

\* auto_execute and safety_result['safe'] and step['safety_level'] == 'SAFE'
auto_executes(auto_execute, safety_result, safety_level) ==
  auto_execute /\ safety_result.safe /\ safety_level = "SAFE"

\* the step_info generate_remediation_plan builds for the i-th step
step_info(pattern, i, auto_execute, outcome) ==
  LET step == pattern.remediation_steps[i]
      safety_result == validate_command(step.command, step.safety_level)
      pending == [step_number |-> i, command |-> step.command,
                  safety_level |-> step.safety_level, status |-> "pending",
                  output |-> None, execution_time |-> None,
                  safety_check |-> safety_result]
  IN IF auto_executes(auto_execute, safety_result, step.safety_level)
     THEN updated(pending, execute_command_safely(step.command, outcome))
     ELSE pending

\* generate_remediation_plan(match_result, auto_execute); outcomes[i] is what
\* subprocess.run comes to for the i-th step
generate_remediation_plan(d, match_result, auto_execute, outcomes) ==
  LET pattern == knowledge_base[match_result.pattern]
      historical_context == current(d, match_result.historical_context)
      remediation_steps == [i \in DOMAIN pattern.remediation_steps |->
                              step_info(pattern, i, auto_execute, outcomes[i])]
  IN [issue_summary |->
        [pattern_name |-> pattern.name, category |-> pattern.category,
         severity |-> pattern.severity, confidence |-> match_result.confidence],
      historical_analysis |->
        [similar_issues |-> Len(historical_context.occurrences),
         success_rate |-> Get(historical_context.patterns, "success_rate", 0),
         avg_resolution_time |-> Get(historical_context.patterns, "avg_resolution_time", 0),
         root_cause_prediction |-> match_result.root_cause_prediction],
      remediation_steps |-> remediation_steps,
      safety_assessment |-> assess_overall_safety(remediation_steps)]

\* the steps generate_remediation_plan hands to subprocess.run
auto_run(plan, auto_execute) ==
  {i \in DOMAIN plan.remediation_steps :
     LET step == plan.remediation_steps[i]
     IN /\ auto_executes(auto_execute, step.safety_check, step.safety_level)
        /\ ~is_sudo(step.command)}

\* a loop that takes no step as executed before
never_executed(step) == FALSE

\* step.get('status') in ['completed', 'skipped']
already_executed(step) == step.status \in {"completed", "skipped"}

\* the safety gate of execute_remediation without its "if not force"
fails_safety_check_forced(step, force) == ~step.safety_check.safe

\* the safety gate of execute_remediation left out
fails_safety_check_never(step, force) == FALSE

\* not force and not safety_check.get('safe', False)
fails_safety_check(step, force) == ~force /\ ~step.safety_check.safe

\* step_indices, or every index when it is None
requested(remediation_plan, step_indices) ==
  IF step_indices.is_none
  THEN [i \in 1..Len(remediation_plan.remediation_steps) |-> i - 1]
  ELSE step_indices.indices

\* a loop that ends at the first step that failed, timed out or raised
RECURSIVE execute_from_stopping(_, _, _, _, _)
\* the loop of execute_remediation from the k-th of step_indices on; log is
\* the remediation_steps and the execution_log so far, with the indices
\* handed to subprocess.run
execute_from_stopping(log, step_indices, k, force, outcomes) ==
  IF k > Len(step_indices) THEN log
  ELSE LET idx == step_indices[k]
           step == log.remediation_steps[idx + 1]
           execution_result == execute_command_safely(step.command, outcomes[k])
           executed == updated(step, execution_result)
       IN IF idx >= Len(log.remediation_steps) THEN
            execute_from_stopping(log, step_indices, k + 1, force, outcomes)
          ELSE IF already_executed(step) THEN
            execute_from_stopping(log, step_indices, k + 1, force, outcomes)
          ELSE IF fails_safety_check(step, force) THEN
            execute_from_stopping(
              [log EXCEPT !.remediation_steps[idx + 1] =
                 [step EXCEPT !.status = "skipped_unsafe",
                              !.output = [skipped |-> step.safety_check.reason]]],
              step_indices, k + 1, force, outcomes)
          ELSE
            execute_from_stopping(
              [remediation_steps |-> [log.remediation_steps EXCEPT ![idx + 1] = executed],
               executed_steps |-> Append(log.executed_steps,
                                         [step_number |-> idx + 1,
                                          status |-> executed.status,
                                          execution_time |-> executed.execution_time]),
               overall_success |-> log.overall_success
                                   /\ executed.status \notin {"failed", "error"},
               total_execution_time |-> log.total_execution_time + executed.execution_time,
               run |-> IF execution_result.run THEN Append(log.run, idx) ELSE log.run],
              step_indices,
              IF executed.status \in {"failed", "timeout", "error"}
              THEN Len(step_indices) + 1 ELSE k + 1,
              force, outcomes)

RECURSIVE execute_from(_, _, _, _, _)
\* the loop of execute_remediation from the k-th of step_indices on; log is
\* the remediation_steps and the execution_log so far, with the indices
\* handed to subprocess.run
execute_from(log, step_indices, k, force, outcomes) ==
  IF k > Len(step_indices) THEN log
  ELSE LET idx == step_indices[k]
           step == log.remediation_steps[idx + 1]
           execution_result == execute_command_safely(step.command, outcomes[k])
           executed == updated(step, execution_result)
       IN IF idx >= Len(log.remediation_steps) THEN
            execute_from(log, step_indices, k + 1, force, outcomes)
          ELSE IF already_executed(step) THEN
            execute_from(log, step_indices, k + 1, force, outcomes)
          ELSE IF fails_safety_check(step, force) THEN
            execute_from(
              [log EXCEPT !.remediation_steps[idx + 1] =
                 [step EXCEPT !.status = "skipped_unsafe",
                              !.output = [skipped |-> step.safety_check.reason]]],
              step_indices, k + 1, force, outcomes)
          ELSE
            execute_from(
              [remediation_steps |-> [log.remediation_steps EXCEPT ![idx + 1] = executed],
               executed_steps |-> Append(log.executed_steps,
                                         [step_number |-> idx + 1,
                                          status |-> executed.status,
                                          execution_time |-> executed.execution_time]),
               overall_success |-> log.overall_success
                                   /\ executed.status \notin {"failed", "error"},
               total_execution_time |-> log.total_execution_time + executed.execution_time,
               run |-> IF execution_result.run THEN Append(log.run, idx) ELSE log.run],
              step_indices, k + 1, force, outcomes)

\* execute_remediation(remediation_plan, step_indices, force) up to the
\* learning update; outcomes[k] is what subprocess.run comes to for the k-th
\* of step_indices
execute_remediation(remediation_plan, step_indices, force, outcomes) ==
  execute_from([remediation_steps |-> remediation_plan.remediation_steps,
                executed_steps |-> << >>,
                overall_success |-> TRUE,
                total_execution_time |-> 0,
                run |-> << >>],
               requested(remediation_plan, step_indices), 1, force, outcomes)

\* the learning_data of _update_learning
learning_data(remediation_plan, execution_log, now) ==
  [timestamp |-> now,
   pattern_id |-> learning_id(remediation_plan.issue_summary.pattern_name),
   confidence |-> remediation_plan.issue_summary.confidence,
   success |-> execution_log.overall_success,
   execution_time |-> execution_log.total_execution_time,
   steps_executed |-> Len(execution_log.executed_steps),
   category |-> remediation_plan.issue_summary.category]

\* _update_learning(remediation_plan, execution_log), up to the save
update_learning(d, remediation_plan, execution_log, now, cause_order) ==
  LET learned == learning_data(remediation_plan, execution_log, now)
  IN record_resolution(d, learned.pattern_id, learned, now, cause_order)

(***************************************************************************)
(* Inputs of the engine                                                    *)
(***************************************************************************)
\* "pod crash loop"
txt_crash_loop == <<"p","o","d"," ","c","r","a","s","h"," ","l","o","o","p">>

\* "Pod is pending and in a CRASH loop"
txt_both == <<"P","o","d"," ","i","s"," ","p","e","n","d","i","n","g"," ","a","n","d"," ","i","n"," ","a"," ","C","R","A","S","H"," ","l","o","o","p">>

\* "disk full"
txt_disk == <<"d","i","s","k"," ","f","u","l","l">>

\* "hello"
txt_hello == <<"h","e","l","l","o">>

\* "Pod"
txt_pod == <<"P","o","d">>

\* "pod crash loop, pod restart"
txt_all == <<"p","o","d"," ","c","r","a","s","h"," ","l","o","o","p",","," ","p","o","d"," ","r","e","s","t","a","r","t">>

\* "pod pending"
txt_pending == <<"p","o","d"," ","p","e","n","d","i","n","g">>

\* the texts recognize_issue_pattern is given
Texts == {txt_crash_loop, txt_both, txt_disk, txt_hello, txt_pod, txt_all, txt_pending}

\* the system contexts it is given: none, a cluster with pod errors, and an
\* Ubuntu host with a nearly full disk
Contexts ==
  { None,
    [kubernetes_available |-> TRUE, pod_errors |-> 2],
    [os_type |-> "ubuntu", disk_usage |-> 90] }

\* the step_indices execute_remediation is given: None, or a list of indices,
\* 7 being past the end of every plan
StepIndexInputs ==
  { [is_none |-> TRUE, indices |-> << >>],
    [is_none |-> FALSE, indices |-> <<2>>],
    [is_none |-> FALSE, indices |-> <<1, 7>>] }

\* what subprocess.run comes to, call after call
OutcomeInputs ==
  LET outcome(status) == CHOOSE o \in ExecutorOutcomes : o.status = status
  IN { <<outcome("completed"), outcome("completed"), outcome("completed")>>,
       <<outcome("failed"), outcome("timeout"), outcome("error")>> }

\* occurrences the engine's store is given in one run
MaxStored == 2

\* "ubuntu_os_disk_space_issues"
id_ubuntu_os_disk_space_issues ==
  <<"u","b","u","n","t","u","_","o","s","_","d","i","s","k","_","s","p","a","c","e","_","i","s","s","u","e","s">>

\* the signatures the engine's store is told occurrences of
EngineIds == {id_kubernetes_pod_crash, id_ubuntu_os_disk_space_issues}

EngineOccurrenceInputs ==
  { [timestamp |-> 45 * HoursPerDay + 10, success |-> TRUE, root_cause |-> "oom",
     resolution_time |-> 4] }

VARIABLES
  checked,   \* the last validate_command call: its arguments and its result
  data,      \* IssueHistoryManager.data
  file,      \* the history file: None while absent, else the store last saved
  now,       \* the clock, in hours
  recorded,  \* per issue id, every occurrence recorded so far, in recording order
  call,      \* the operation that ran last, its arguments and what it did
  match,     \* the MatchResult recognize_issue_pattern returned last, or None
  plan,      \* the remediation plan generated last, or None
  dispatched, \* the steps of plan handed to subprocess.run so far
  pc,        \* where the process is in _save_history, or "down" when it stopped
  heap,      \* the dict and list objects of data['issue_history'], by identity
  threads,   \* the threads running track_issue concurrently: position and locals
  agent_data \* IssueHistoryManager.data of the agent's own history_manager

vars == <<checked, data, file, now, recorded, call, match, plan, dispatched,
          pc, heap, threads, agent_data>>

stepVars == <<pc, heap, threads>>

historyVars == <<data, file, recorded>>

engineVars == <<match, plan, dispatched>>

Init ==
  /\ checked = None
  /\ data = create_default_structure   \* _load_history() finds no file
  /\ file = None
  /\ now = 0
  /\ recorded = << >>
  /\ call = None
  /\ match = None
  /\ plan = None
  /\ dispatched = {}
  /\ pc = "idle"
  /\ heap = None
  /\ threads = << >>
  /\ agent_data = create_default_structure   \* its _load_history() finds no file either

TotalRecorded == SumSeq([i \in DOMAIN data.key_order |-> Len(recorded[data.key_order[i]])])

\* the occurrences recorded for issue_id once occ is recorded too
Recorded(issue_id, occ) ==
  IF issue_id \in DOMAIN recorded
  THEN [recorded EXCEPT ![issue_id] = Append(@, occ)]
  ELSE recorded @@ (issue_id :> <<occ>>)

\* _save_history(): json.dump of the whole store
save_history(d) == d

(***************************************************************************)
(* The history store's operations                                          *)
(***************************************************************************)
\* IssueHistoryManager.track_issue(issue_id, occurrence_data)
TrackIssue(issue_id, occurrence_data) ==
  /\ TotalRecorded < MaxRecorded
  /\ \E cause_order \in cause_orders(data, issue_id, occurrence_data, now) :
       data' = track_issue(data, issue_id, occurrence_data, now, cause_order)
  /\ file' = save_history(data')
  /\ recorded' = Recorded(issue_id, new_occurrence(occurrence_data, now))
  /\ call' = [op |-> "track_issue", issue_id |-> issue_id]
  /\ UNCHANGED <<agent_data, stepVars, checked, now, engineVars>>

\* IssueHistoryManager.record_resolution(issue_id, resolution_data)
RecordResolution(issue_id, resolution_data) ==
  /\ TotalRecorded < MaxRecorded
  /\ LET occurrence_data == resolution_occurrence_data(resolution_data, now)
     IN /\ \E cause_order \in cause_orders(data, issue_id, occurrence_data, now) :
             data' = record_resolution(data, issue_id, resolution_data, now, cause_order)
        /\ recorded' = Recorded(issue_id, new_occurrence(occurrence_data, now))
  /\ file' = save_history(data')
  /\ call' = [op |-> "record_resolution", issue_id |-> issue_id]
  /\ UNCHANGED <<agent_data, stepVars, checked, now, engineVars>>

\* time passes
Tick ==
  /\ now < MaxNow
  /\ now' = now + 1
  /\ UNCHANGED <<agent_data, stepVars, checked, historyVars, call, engineVars>>

NextHistory ==
  \/ \E issue_id \in HistoryIds, occurrence_data \in OccurrenceInputs :
       TrackIssue(issue_id, occurrence_data)
  \/ \E issue_id \in HistoryIds, resolution_data \in ResolutionInputs :
       RecordResolution(issue_id, resolution_data)
  \/ Tick

SpecHistory == Init /\ [][NextHistory]_vars

(***************************************************************************)
(* Spec: the engine and the store it consults, through one request: the    *)
(* caller recognizes the issue, has a plan generated for the match, and    *)
(* executes the plan, call after call                                      *)
(***************************************************************************)
\* recognize_issue_pattern(user_input, system_context)
Recognize(user_input, system_context) ==
  /\ plan = None
  /\ match' = recognize_issue_pattern(data, user_input, system_context)
  /\ call' = [op |-> "recognize_issue_pattern",
              user_input |-> user_input,
              system_context |-> system_context,
              confidence |-> [k \in DOMAIN knowledge_base |->
                                calculate_confidence(data, knowledge_base[k],
                                                     lower(user_input), system_context)]]
  /\ UNCHANGED <<agent_data, stepVars, checked, historyVars, now, plan, dispatched>>

\* generate_remediation_plan(match_result, auto_execute) on the last match
GeneratePlan(auto_execute, outcomes) ==
  /\ match # None
  /\ plan = None
  /\ plan' = generate_remediation_plan(data, match, auto_execute, outcomes)
  /\ dispatched' = auto_run(plan', auto_execute)
  /\ call' = [op |-> "generate_remediation_plan", auto_execute |-> auto_execute,
              run |-> dispatched']
  /\ UNCHANGED <<agent_data, stepVars, checked, historyVars, now, match>>

\* execute_remediation(remediation_plan, step_indices, force) on the last plan
ExecuteRemediation(step_indices, force, outcomes) ==
  /\ plan # None
  /\ TotalRecorded < MaxStored
  /\ LET execution_log == execute_remediation(plan, step_indices, force, outcomes)
         remediation_plan == [plan EXCEPT !.remediation_steps =
                                            execution_log.remediation_steps]
         learned == learning_data(remediation_plan, execution_log, now)
         occurrence_data == resolution_occurrence_data(learned, now)
     IN /\ plan' = remediation_plan
        /\ \E cause_order \in cause_orders(data, learned.pattern_id, occurrence_data, now) :
             data' = update_learning(data, remediation_plan, execution_log, now, cause_order)
        /\ recorded' = Recorded(learned.pattern_id, new_occurrence(occurrence_data, now))
        /\ dispatched' = dispatched \cup {idx + 1 : idx \in Range(execution_log.run)}
        /\ call' = [op |-> "execute_remediation",
                    step_indices |-> requested(plan, step_indices),
                    force |-> force,
                    before |-> plan.remediation_steps,
                    run |-> {idx + 1 : idx \in Range(execution_log.run)},
                    executed_steps |-> execution_log.executed_steps,
                    overall_success |-> execution_log.overall_success,
                    total_execution_time |-> execution_log.total_execution_time]
  /\ file' = save_history(data')
  /\ UNCHANGED <<agent_data, stepVars, checked, now, match>>

\* issue_history.track_issue(issue_id, occurrence_data) on the engine's store
Track(issue_id, occurrence_data) ==
  /\ TotalRecorded < MaxStored
  /\ TrackIssue(issue_id, occurrence_data)

Next ==
  \/ \E user_input \in Texts, system_context \in Contexts :
       Recognize(user_input, system_context)
  \/ \E auto_execute \in BOOLEAN, outcomes \in OutcomeInputs :
       GeneratePlan(auto_execute, outcomes)
  \/ \E step_indices \in StepIndexInputs, force \in BOOLEAN, outcomes \in OutcomeInputs :
       ExecuteRemediation(step_indices, force, outcomes)
  \/ \E issue_id \in EngineIds, occurrence_data \in EngineOccurrenceInputs :
       Track(issue_id, occurrence_data)

Spec == Init /\ [][Next]_vars

(***************************************************************************)
(* SpecStats: the store told occurrences whose timestamp may not be a date *)
(***************************************************************************)
\* occurrence_data of track_issue callers, the second with a timestamp that
\* is not a date
StatsInputs ==
  { [timestamp |-> 45 * HoursPerDay + 10, success |-> TRUE, root_cause |-> "oom",
     resolution_time |-> 4],
    [timestamp |-> NotADate, success |-> TRUE, root_cause |-> "disk",
     resolution_time |-> 7],
    [timestamp |-> 3 * HoursPerDay + 10, success |-> FALSE] }

\* a caller asks for a prediction; the store is only read
Predict(issue_id) ==
  /\ call' = [op |-> "predict_root_cause", issue_id |-> issue_id,
              result |-> predict_root_cause(data, issue_id)]
  /\ UNCHANGED <<agent_data, stepVars, checked, historyVars, now, engineVars>>

NextStats ==
  \/ \E issue_id \in HistoryIds : Predict(issue_id)
  \/ \E issue_id \in HistoryIds, occurrence_data \in StatsInputs :
       TrackIssue(issue_id, occurrence_data)
  \/ \E issue_id \in HistoryIds, resolution_data \in ResolutionInputs :
       RecordResolution(issue_id, resolution_data)

SpecStats == Init /\ [][NextStats]_vars

(***************************************************************************)
(* SpecShared: the agent, which holds the engine (with the engine's        *)
(* IssueHistoryManager, data) and an IssueHistoryManager of its own        *)
(* (agent_data), both constructed on the default history file              *)
(***************************************************************************)
RECURSIVE RecordedUnder(_)
RecordedUnder(ids) ==
  IF ids = {} THEN 0
  ELSE LET issue_id == CHOOSE id \in ids : TRUE
       IN Len(recorded[issue_id]) + RecordedUnder(ids \ {issue_id})

\* the occurrences recorded so far through either manager
SharedTotal == RecordedUnder(DOMAIN recorded)

\* remediation_engine.issue_history.record_resolution(pattern_id, learning_data),
\* the last statement of _update_learning
EngineRecordResolution(issue_id, resolution_data) ==
  /\ SharedTotal < MaxRecorded
  /\ RecordResolution(issue_id, resolution_data)

\* history_manager.track_issue(issue_id, occurrence_data) in the agent
AgentTrackIssue(issue_id, occurrence_data) ==
  /\ SharedTotal < MaxRecorded
  /\ \E cause_order \in cause_orders(agent_data, issue_id, occurrence_data, now) :
       agent_data' = track_issue(agent_data, issue_id, occurrence_data, now, cause_order)
  /\ file' = save_history(agent_data')
  /\ recorded' = Recorded(issue_id, new_occurrence(occurrence_data, now))
  /\ call' = [op |-> "agent_track_issue", issue_id |-> issue_id]
  /\ UNCHANGED <<data, stepVars, checked, now, engineVars>>

\* history_manager.record_resolution(...) in execute_action
AgentRecordResolution(issue_id, resolution_data) ==
  /\ SharedTotal < MaxRecorded
  /\ LET occurrence_data == resolution_occurrence_data(resolution_data, now)
     IN /\ \E cause_order \in cause_orders(agent_data, issue_id, occurrence_data, now) :
             agent_data' = record_resolution(agent_data, issue_id, resolution_data, now, cause_order)
        /\ recorded' = Recorded(issue_id, new_occurrence(occurrence_data, now))
  /\ file' = save_history(agent_data')
  /\ call' = [op |-> "agent_record_resolution", issue_id |-> issue_id]
  /\ UNCHANGED <<data, stepVars, checked, now, engineVars>>

NextShared ==
  \/ \E resolution_data \in ResolutionInputs :
       EngineRecordResolution(id_k8s_pod_crash, resolution_data)
  \/ \E occurrence_data \in OccurrenceInputs :
       AgentTrackIssue(id_k8s_pod_crash, occurrence_data)
  \/ \E resolution_data \in ResolutionInputs :
       AgentRecordResolution(id_k8s_pod_crash, resolution_data)

SpecShared == Init /\ [][NextShared]_vars

(***************************************************************************)
(* SpecContext: the context adjustment of _calculate_confidence for one    *)
(* pattern and one system context                                          *)
(***************************************************************************)
\* category and name of catalog patterns: the fields the adjustment reads
ContextPatterns ==
  { [category |-> cat_kubernetes, name |-> <<"P","o","d"," ","C","r","a","s","h">>],
    [category |-> cat_kubernetes, name |-> <<"D","N","S">>],
    [category |-> cat_ubuntu_os, name |-> name_disk_space_issues],
    [category |-> cat_ubuntu_os, name |-> <<"S","w","a","p">>],
    [category |-> cat_glusterfs, name |-> <<"H","e","a","l">>],
    [category |-> <<"N","F","S">>, name |-> <<"S","t","a","l","e">>] }

\* the values a key of the system context is given, when it is given
ContextValues ==
  [kubernetes_available |-> <<TRUE, FALSE>>,
   pod_errors |-> <<2, 0>>,
   os_type |-> <<"ubuntu", "centos">>,
   disk_usage |-> <<90, 80>>,
   gluster_available |-> <<TRUE, FALSE>>]

\* the dict that gives each key its chosen value, 0 leaving the key out
context_of(choice) ==
  [key \in {k \in DOMAIN choice : choice[k] # 0} |-> ContextValues[key][choice[key]]]

\* system_context of the callers: None, {} and every dict over the five keys
ContextInputs ==
  {None} \cup {context_of(choice) : choice \in [DOMAIN ContextValues -> 0..2]}

\* lines 177-180 of _calculate_confidence
ContextBoost(pattern, system_context) ==
  /\ call = None
  /\ call' = [op |-> "context_boost", pattern |-> pattern,
              system_context |-> system_context,
              context_boost |-> IF is_given(system_context)
                                THEN calculate_context_relevance(pattern, system_context)
                                ELSE 0]
  /\ UNCHANGED <<agent_data, stepVars, checked, historyVars, now, engineVars>>

NextContext ==
  \E pattern \in ContextPatterns, system_context \in ContextInputs :
    ContextBoost(pattern, system_context)

SpecContext == Init /\ [][NextContext]_vars

(***************************************************************************)
(* SpecSeasonal: occurrences of one signature at chosen hours and days;    *)
(* day 0 is a Monday                                                       *)
(***************************************************************************)
\* occurrence_data of the track_issue callers: Monday 10:00, Monday 23:00,
\* Saturday 19:00, Sunday 10:00, and a timestamp fromisoformat raises on
SeasonalInputs ==
  { [timestamp |-> 10],
    [timestamp |-> 23],
    [timestamp |-> 5 * HoursPerDay + 19],
    [timestamp |-> 6 * HoursPerDay + 10],
    [timestamp |-> NotADate] }

NextSeasonal ==
  \E occurrence_data \in SeasonalInputs : TrackIssue(id_k8s_pod_crash, occurrence_data)

SpecSeasonal == Init /\ [][NextSeasonal]_vars

(***************************************************************************)
(* SpecCrash: track_issue with _save_history statement by statement, and   *)
(* a process that may stop at any statement and be started again           *)
(***************************************************************************)
\* occurrence_data of the track_issue callers
CrashInputs ==
  { [timestamp |-> 45 * HoursPerDay + 10, success |-> TRUE, root_cause |-> "oom",
     resolution_time |-> 4],
    [timestamp |-> 3 * HoursPerDay + 10, success |-> FALSE] }

\* what the history file holds after open(history_file, 'w'): nothing
truncated == [written |-> "nothing"]

\* what the file holds when the write buffer was flushed during json.dump:
\* the beginning of the text of d
partly_written(d) == [written |-> "part", of |-> d]

\* json.load(f) returns a store: the file holds the whole text of one
parses_as_json(f) == "written" \notin DOMAIN f

\* _load_history(): the store of the file, or the default structure when
\* the file is absent or json.load raises
load_history(f) ==
  IF f = None THEN create_default_structure
  ELSE IF parses_as_json(f) THEN f
  ELSE create_default_structure

\* the store the file held when it last held a whole one
persisted == IF file = None \/ parses_as_json(file) THEN file ELSE call.persisted

\* track_issue up to the call of _save_history
BeginTrack(issue_id, occurrence_data) ==
  /\ pc = "idle"
  /\ TotalRecorded < MaxRecorded
  /\ \E cause_order \in cause_orders(data, issue_id, occurrence_data, now) :
       data' = track_issue(data, issue_id, occurrence_data, now, cause_order)
  /\ recorded' = Recorded(issue_id, new_occurrence(occurrence_data, now))
  /\ call' = [op |-> "track_issue", issue_id |-> issue_id, persisted |-> persisted]
  /\ pc' = "open"
  /\ UNCHANGED <<agent_data, checked, file, now, engineVars, heap, threads>>

\* with open(self.history_file, 'w') as f
OpenFile ==
  /\ pc = "open"
  /\ file' = truncated
  /\ pc' = "dump"
  /\ UNCHANGED <<agent_data, checked, data, recorded, call, now, engineVars, heap, threads>>

\* json.dump(self.data, f, indent=2), the buffer being flushed before the end
DumpSome ==
  /\ pc = "dump"
  /\ file = truncated
  /\ file' = partly_written(data)
  /\ UNCHANGED <<agent_data, checked, data, recorded, call, now, engineVars, stepVars>>

\* the end of json.dump and of the with block: the file is closed
CloseFile ==
  /\ pc = "dump"
  /\ file' = save_history(data)
  /\ pc' = "idle"
  /\ UNCHANGED <<agent_data, checked, data, recorded, call, now, engineVars, heap, threads>>

\* the process stops, at any statement
Crash ==
  /\ pc # "down"
  /\ pc' = "down"
  /\ UNCHANGED <<agent_data, checked, historyVars, call, now, engineVars, heap, threads>>

\* the process is started again: __init__ calls _load_history()
Restart ==
  /\ pc = "down"
  /\ data' = load_history(file)
  /\ recorded' = [issue_id \in DOMAIN data'.issue_history |->
                    data'.issue_history[issue_id].occurrences]
  /\ call' = [op |-> "restart", persisted |-> persisted]
  /\ pc' = "idle"
  /\ UNCHANGED <<agent_data, checked, file, now, engineVars, heap, threads>>

NextCrash ==
  \/ \E occurrence_data \in CrashInputs : BeginTrack(id_k8s_pod_crash, occurrence_data)
  \/ OpenFile
  \/ DumpSome
  \/ CloseFile
  \/ Crash
  \/ Restart

SpecCrash == Init /\ [][NextCrash]_vars

(***************************************************************************)
(* SpecRace: two threads in track_issue on one IssueHistoryManager, for    *)
(* the same issue id, statement by statement.  The code takes no lock, so  *)
(* the threads' statements interleave freely.  data is the value of the    *)
(* objects reachable from self.data; heap tells the objects apart.         *)
(***************************************************************************)
Threads == {1, 2}

\* the issue id both threads record under
race_id == id_k8s_pod_crash

\* the three occurrences of a full window recorded earlier
earlier_window ==
  << new_occurrence([timestamp |-> 1 * HoursPerDay + 10, success |-> TRUE,
                     root_cause |-> "oom", resolution_time |-> 4], 0),
     new_occurrence([timestamp |-> 2 * HoursPerDay + 10, success |-> FALSE], 0),
     new_occurrence([timestamp |-> 3 * HoursPerDay + 10, success |-> TRUE,
                     root_cause |-> "oom", resolution_time |-> 6], 0) >>

\* occurrence_data of the two callers
RaceInputs ==
  << [timestamp |-> 4 * HoursPerDay + 10, success |-> TRUE, root_cause |-> "disk",
      resolution_time |-> 8],
     [timestamp |-> 5 * HoursPerDay + 10, success |-> FALSE] >>

\* the objects of a store without the issue id, and of one with a full window
empty_heap == [slot |-> 0, entries |-> << >>, lists |-> << >>]
full_heap ==
  [slot |-> 1,
   entries |-> << [occurrences |-> 1, patterns |-> update_patterns(earlier_window, <<"oom">>)] >>,
   lists |-> << earlier_window >>]

\* self.data as a value: the entry the dict holds for the id, with the list
\* that entry holds
view(h, learning_analytics) ==
  IF h.slot = 0
  THEN [create_default_structure EXCEPT !.learning_analytics = learning_analytics]
  ELSE [issue_history |->
          (race_id :> [occurrences |-> h.lists[h.entries[h.slot].occurrences],
                       patterns |-> h.entries[h.slot].patterns]),
        key_order |-> <<race_id>>,
        learning_analytics |-> learning_analytics]

InitRace ==
  /\ checked = None
  /\ agent_data = create_default_structure
  /\ heap \in {empty_heap, full_heap}
  /\ data = update_analytics(view(heap, create_default_structure.learning_analytics))
  /\ file = IF heap = empty_heap THEN None ELSE data
  /\ now = 0
  /\ recorded = IF heap = empty_heap THEN << >> ELSE (race_id :> earlier_window)
  /\ call = None
  /\ match = None
  /\ plan = None
  /\ dispatched = {}
  /\ pc = "idle"
  /\ threads = [t \in Threads |->
                  [pc |-> "check", occurrence_data |-> RaceInputs[t], issue_history |-> 0,
                   sliced |-> << >>, issue_data |-> 0, patterns |-> None]]

\* thread t moves to position p, its locals changed as the record says
moved(t, p, locals) ==
  [threads EXCEPT ![t] = [name \in DOMAIN @ |->
                            IF name = "pc" THEN p
                            ELSE IF name \in DOMAIN locals THEN locals[name] ELSE @[name]]]

\* if issue_id not in self.data['issue_history']
Check(t) ==
  /\ threads[t].pc = "check"
  /\ threads' = moved(t, IF heap.slot = 0 THEN "create" ELSE "bind", << >>)
  /\ UNCHANGED <<agent_data, checked, historyVars, call, now, engineVars, pc, heap>>

\* self.data['issue_history'][issue_id] = {'occurrences': [], 'patterns': {...}}
Create(t) ==
  /\ threads[t].pc = "create"
  /\ heap' = [slot |-> Len(heap.entries) + 1,
              entries |-> Append(heap.entries, [occurrences |-> Len(heap.lists) + 1,
                                                patterns |-> default_patterns]),
              lists |-> Append(heap.lists, << >>)]
  /\ data' = view(heap', data.learning_analytics)
  /\ threads' = moved(t, "bind", << >>)
  /\ UNCHANGED <<agent_data, checked, file, recorded, call, now, engineVars, pc>>

\* issue_history = self.data['issue_history'][issue_id]
Bind(t) ==
  /\ threads[t].pc = "bind"
  /\ threads' = moved(t, "append", [issue_history |-> heap.slot])
  /\ UNCHANGED <<agent_data, checked, historyVars, call, now, engineVars, pc, heap>>

\* issue_history['occurrences'].append(new_occurrence)
AppendOccurrence(t) ==
  /\ threads[t].pc = "append"
  /\ LET list == heap.entries[threads[t].issue_history].occurrences
         occ == new_occurrence(threads[t].occurrence_data, now)
     IN /\ heap' = [heap EXCEPT !.lists[list] = Append(@, occ)]
        /\ recorded' = Recorded(race_id, occ)
  /\ data' = view(heap', data.learning_analytics)
  /\ threads' = moved(t, "truncate", << >>)
  /\ UNCHANGED <<agent_data, checked, file, call, now, engineVars, pc>>

\* if len(issue_history['occurrences']) > self.max_occurrences: the right-hand
\* side issue_history['occurrences'][-self.max_occurrences:] is computed
Truncate(t) ==
  /\ threads[t].pc = "truncate"
  /\ LET occurrences == heap.lists[heap.entries[threads[t].issue_history].occurrences]
     IN threads' = IF Len(occurrences) > max_occurrences
                   THEN moved(t, "assign", [sliced |-> keep_last(occurrences)])
                   ELSE moved(t, "patterns", << >>)
  /\ UNCHANGED <<agent_data, checked, historyVars, call, now, engineVars, pc, heap>>

\* issue_history['occurrences'] = the list computed: a new list object
Assign(t) ==
  /\ threads[t].pc = "assign"
  /\ heap' = [heap EXCEPT !.lists = Append(@, threads[t].sliced),
                          !.entries[threads[t].issue_history].occurrences = Len(heap.lists) + 1]
  /\ data' = view(heap', data.learning_analytics)
  /\ threads' = moved(t, "patterns", << >>)
  /\ UNCHANGED <<agent_data, checked, file, recorded, call, now, engineVars, pc>>

\* _update_patterns up to its last statement: the entry and its list are
\* read from self.data and the new patterns computed
ReadPatterns(t) ==
  /\ threads[t].pc = "patterns"
  /\ LET occurrences == heap.lists[heap.entries[heap.slot].occurrences]
     IN IF occurrences = << >> \/ update_patterns_raises(occurrences)
        THEN threads' = moved(t, "analytics", << >>)
        ELSE \E cause_order \in Orderings(known_causes(occurrences)) :
               threads' = moved(t, "set_patterns",
                                [issue_data |-> heap.slot,
                                 patterns |-> update_patterns(occurrences, cause_order)])
  /\ UNCHANGED <<agent_data, checked, historyVars, call, now, engineVars, pc, heap>>

\* issue_data['patterns'] = {...}
SetPatterns(t) ==
  /\ threads[t].pc = "set_patterns"
  /\ heap' = [heap EXCEPT !.entries[threads[t].issue_data].patterns = threads[t].patterns]
  /\ data' = view(heap', data.learning_analytics)
  /\ threads' = moved(t, "analytics", << >>)
  /\ UNCHANGED <<agent_data, checked, file, recorded, call, now, engineVars, pc>>

\* self._update_analytics()
UpdateAnalytics(t) ==
  /\ threads[t].pc = "analytics"
  /\ data' = update_analytics(data)
  /\ threads' = moved(t, "save", << >>)
  /\ UNCHANGED <<agent_data, checked, file, recorded, call, now, engineVars, pc, heap>>

\* self._save_history(), then track_issue returns
Save(t) ==
  /\ threads[t].pc = "save"
  /\ file' = save_history(data)
  /\ threads' = moved(t, "done", << >>)
  /\ UNCHANGED <<agent_data, checked, data, recorded, call, now, engineVars, pc, heap>>

NextRace ==
  \E t \in Threads :
    \/ Check(t)
    \/ Create(t)
    \/ Bind(t)
    \/ AppendOccurrence(t)
    \/ Truncate(t)
    \/ Assign(t)
    \/ ReadPatterns(t)
    \/ SetPatterns(t)
    \/ UpdateAnalytics(t)
    \/ Save(t)

SpecRace == InitRace /\ [][NextRace]_vars

(***************************************************************************)
(* SpecAssess: the remediation steps of a plan and their assessment, for   *)
(* every short list of step templates                                      *)
(***************************************************************************)
MaxSteps == 3

\* remediation_steps entries of a pattern: a command with an allowlisted
\* prefix and one with a dangerous signature, at each declared level
StepTemplates ==
  [command : {cmd_get_pods, cmd_rm_var}, safety_level : SafetyLevels]

StepLists == UNION {[1..n -> StepTemplates] : n \in 0..MaxSteps}

\* the loop of generate_remediation_plan over the steps of a pattern,
\* followed by _assess_overall_safety, once
Assess(templates, auto_execute) ==
  /\ call = None
  /\ LET outcome == CHOOSE o \in ExecutorOutcomes : o.status = "completed"
         steps == [i \in DOMAIN templates |->
                     step_info([remediation_steps |-> templates], i, auto_execute, outcome)]
     IN call' = [op |-> "assess_overall_safety", steps |-> steps,
                 safety_assessment |-> assess_overall_safety(steps)]
  /\ UNCHANGED <<agent_data, stepVars, checked, historyVars, now, engineVars>>

NextAssess ==
  \E templates \in StepLists, auto_execute \in BOOLEAN : Assess(templates, auto_execute)

SpecAssess == Init /\ [][NextAssess]_vars

(***************************************************************************)
(* SpecLoad: load_knowledge_base applied to patterns files, well-formed    *)
(* and not                                                                 *)
(***************************************************************************)
\* the fields IssuePattern(...) is given as pattern_data['...']
required_fields ==
  {"id", "category", "name", "keywords", "regex_patterns", "severity",
   "confidence_base", "description", "remediation_steps"}

\* load_knowledge_base(patterns_file): the patterns of the file in file
\* order; the empty catalog when open() raises or a pattern_data lacks a
\* field (except: return {}).  Nothing looks at the length of a list.
load_knowledge_base(source) ==
  IF ~source.exists THEN << >>
  ELSE IF \E i \in DOMAIN source.patterns :
            ~(required_fields \subseteq DOMAIN source.patterns[i])
  THEN << >>
  ELSE source.patterns

\* the ways the entry of a pattern is written in a file
Writings == {"whole", "no_keywords", "no_description", "empty_keywords", "empty_regex"}

\* pattern_data of a pattern, written in the way given
written(pattern, writing) ==
  LET whole == pattern @@ [description |-> "text"]
  IN IF writing = "no_keywords"
     THEN [field \in DOMAIN whole \ {"keywords"} |-> whole[field]]
     ELSE IF writing = "no_description" THEN pattern
     ELSE IF writing = "empty_keywords" THEN [whole EXCEPT !.keywords = << >>]
     ELSE IF writing = "empty_regex" THEN [whole EXCEPT !.regex_patterns = << >>]
     ELSE whole

\* patterns files: an absent one, and the catalog with each entry written in
\* each way
PatternsFiles ==
  {[exists |-> FALSE, patterns |-> << >>]}
  \cup {[exists |-> TRUE,
         patterns |-> [i \in DOMAIN knowledge_base |-> written(knowledge_base[i], writings[i])]] :
           writings \in [DOMAIN knowledge_base -> Writings]}

\* __init__: self.knowledge_base = self.load_knowledge_base(patterns_file)
Load(source) ==
  /\ call' = [op |-> "load_knowledge_base", source |-> source,
              knowledge_base |-> load_knowledge_base(source)]
  /\ UNCHANGED <<agent_data, stepVars, checked, historyVars, now, engineVars>>

NextLoad == \E source \in PatternsFiles : Load(source)

SpecLoad == Init /\ [][NextLoad]_vars

(***************************************************************************)
(* SpecEdit: the engine with a caller that changes the command of a step   *)
(* of the plan it holds before it hands the plan to execute_remediation    *)
(***************************************************************************)
\* the caller writes a command into a step of the plan dict; the safety
\* check stored in the step stays as generate_remediation_plan left it
EditCommand(i, command) ==
  /\ plan # None
  /\ i \in DOMAIN plan.remediation_steps
  /\ plan.remediation_steps[i].command # command
  /\ plan' = [plan EXCEPT !.remediation_steps[i].command = command]
  /\ call' = [op |-> "edit_command", step_number |-> i, command |-> command]
  /\ UNCHANGED <<agent_data, stepVars, checked, historyVars, now, match, dispatched>>

NextEdit ==
  \/ \E user_input \in {txt_crash_loop, txt_disk} : Recognize(user_input, None)
  \/ \E auto_execute \in BOOLEAN, outcomes \in OutcomeInputs :
       GeneratePlan(auto_execute, outcomes)
  \/ \E i \in 1..3 : EditCommand(i, cmd_rm_root)
  \/ \E step_indices \in StepIndexInputs, force \in BOOLEAN, outcomes \in OutcomeInputs :
       ExecuteRemediation(step_indices, force, outcomes)

SpecEdit == Init /\ [][NextEdit]_vars

(***************************************************************************)
(* SpecSafety: validate_command as a pure function of its arguments        *)
(***************************************************************************)
Validate(command, safety_level) ==
  /\ checked' = [command |-> command, safety_level |-> safety_level,
                 result |-> validate_command(command, safety_level)]
  /\ UNCHANGED <<agent_data, stepVars, historyVars, now, call, engineVars>>

NextSafety ==
  \E command \in Commands, safety_level \in DeclaredLevels : Validate(command, safety_level)

SpecSafety == Init /\ [][NextSafety]_vars

(***************************************************************************)
(* Properties                                                              *)
(***************************************************************************)
Window(issue_id) == data.issue_history[issue_id].occurrences

Timestamps(occurrences) == [i \in DOMAIN occurrences |-> occurrences[i].timestamp]

RECURSIVE SortDesc(_)
\* a sequence of numbers, largest first
SortDesc(s) ==
  IF s = <<>> THEN <<>>
  ELSE LET top == CHOOSE i \in DOMAIN s : \A j \in DOMAIN s : s[j] <= s[i]
       IN <<s[top]>> \o SortDesc([j \in 1..(Len(s) - 1) |-> IF j < top THEN s[j] ELSE s[j + 1]])

\* the first n elements of s, or all of s when it has fewer
FirstN(s, n) == SubSeq(s, 1, IF Len(s) < n THEN Len(s) ELSE n)

\* the last n elements of s, or all of s when it has fewer
LastN(s, n) == SubSeq(s, IF Len(s) < n THEN 1 ELSE Len(s) - n + 1, Len(s))

NonDecreasing(s) == \A i \in 1..(Len(s) - 1) : s[i] <= s[i + 1]

\* C1: whatever track_issue and record_resolution calls were made, the stored
\* window of every signature holds at most 3 occurrences.
C1_WindowAtMostThree ==
  \A issue_id \in DOMAIN data.issue_history : Len(Window(issue_id)) <= 3

\* C1 witness: a fourth occurrence was recorded for a signature, whose window
\* holds 3.
C1_Witness ==
  \E issue_id \in DOMAIN data.issue_history :
    Len(recorded[issue_id]) > 3 /\ Len(Window(issue_id)) = 3

\* C2 as claimed: the window of every signature holds the 3 occurrences with the
\* most recent timestamps among all those recorded for it (all of them when
\* fewer than 3 were recorded), whatever the order of the timestamps.
C2_RetainsMostRecentByTimestamp ==
  \A issue_id \in DOMAIN data.issue_history :
    SortDesc(Timestamps(Window(issue_id)))
      = FirstN(SortDesc(Timestamps(recorded[issue_id])), 3)

\* C2 amended: the window of every signature holds the 3 occurrences recorded
\* last (all of them when fewer than 3 were recorded), in recording order; they
\* are the 3 with the most recent timestamps whenever the occurrences were
\* recorded in non-decreasing timestamp order.
C2_RetainsLastRecorded ==
  \A issue_id \in DOMAIN data.issue_history :
    /\ Window(issue_id) = LastN(recorded[issue_id], 3)
    /\ NonDecreasing(Timestamps(recorded[issue_id]))
         => SortDesc(Timestamps(Window(issue_id)))
              = FirstN(SortDesc(Timestamps(recorded[issue_id])), 3)

\* C2 witness: occurrences were recorded out of timestamp order and the oldest
\* recorded one, which has the most recent timestamp, was evicted.
C2_Witness ==
  \E issue_id \in DOMAIN data.issue_history :
    /\ Len(recorded[issue_id]) > 3
    /\ \A i \in DOMAIN Window(issue_id) :
         Window(issue_id)[i].timestamp < recorded[issue_id][1].timestamp

\* some dangerous signature is found in the command
HasDangerousSignature(command) ==
  \E k \in DOMAIN dangerous_patterns : re_search(dangerous_patterns[k], command)

\* the command, lower-cased and stripped, starts with an allowlisted prefix
HasAllowlistedPrefix(command) ==
  \E k \in DOMAIN safe_prefixes : startswith(strip(lower(command)), lower(safe_prefixes[k]))

\* C5: a command in which a dangerous signature is found is classified unsafe,
\* risk HIGH, confirmation required, whatever level was declared and whether or
\* not it starts with an allowlisted prefix.
C5_DangerousIsHigh ==
  (checked # None /\ HasDangerousSignature(checked.command))
    => /\ checked.result.safe = FALSE
       /\ checked.result.risk_level = "HIGH"
       /\ checked.result.requires_confirmation = TRUE

\* C5 witness: "ls; rm -rf /", declared SAFE and starting with the allowlisted
\* "ls", has been validated.
C5_Witness ==
  /\ checked # None
  /\ checked.command = cmd_ls_rm
  /\ checked.safety_level = "SAFE"
  /\ HasAllowlistedPrefix(checked.command)
  /\ HasDangerousSignature(checked.command)

\* C6: a command with no dangerous signature that starts, case-insensitively,
\* with an allowlisted prefix is classified safe, risk SAFE, no confirmation,
\* whatever level was declared.
C6_AllowlistedIsSafe ==
  (/\ checked # None
   /\ ~HasDangerousSignature(checked.command)
   /\ HasAllowlistedPrefix(checked.command))
    => /\ checked.result.safe = TRUE
       /\ checked.result.risk_level = "SAFE"
       /\ checked.result.requires_confirmation = FALSE

\* C6 witness: "KUBECTL GET pods", declared HIGH, has been validated.
C6_Witness ==
  /\ checked # None
  /\ checked.command = cmd_get_pods_upper
  /\ checked.safety_level = "HIGH"
  /\ ~HasDangerousSignature(checked.command)
  /\ HasAllowlistedPrefix(checked.command)

(***************************************************************************)
(* The engine's execution gate                                             *)
(***************************************************************************)
\* the operation that ran last is op
Called(op) == call # None /\ call.op = op

Steps == plan.remediation_steps

\* the safety check stored with the step says HIGH risk
HighRisk(step) == step.safety_check.risk_level = "HIGH"

\* the last execute_remediation call named the i-th step
Requested(i) == \E k \in DOMAIN call.step_indices : call.step_indices[k] = i - 1

\* C3 as stated: after an execute_remediation call with force=False, a
\* requested step whose safety check says HIGH risk was not dispatched by the
\* call and has status skipped_unsafe.
C3_UnforcedSkipsHighRisk ==
  (Called("execute_remediation") /\ ~call.force) =>
    \A i \in DOMAIN Steps :
      (HighRisk(Steps[i]) /\ Requested(i)) =>
        (i \notin call.run /\ Steps[i].status = "skipped_unsafe")

\* C3, amended: an execute_remediation call with force=False dispatches no
\* step whose safety check says HIGH risk, and leaves such a step with status
\* skipped_unsafe when it was requested and was not completed or skipped
\* before the call.
C3_UnforcedNeverDispatchesHighRisk ==
  (Called("execute_remediation") /\ ~call.force) =>
    \A i \in DOMAIN Steps :
      HighRisk(Steps[i]) =>
        /\ i \notin call.run
        /\ (Requested(i) /\ call.before[i].status \notin {"completed", "skipped"})
             => Steps[i].status = "skipped_unsafe"

\* an unforced call met a requested, pending HIGH-risk step and skipped it
C3_Witness ==
  /\ Called("execute_remediation") /\ ~call.force
  /\ \E i \in DOMAIN Steps :
       /\ HighRisk(Steps[i]) /\ Requested(i)
       /\ call.before[i].status = "pending"
       /\ Steps[i].status = "skipped_unsafe"
       /\ i \notin call.run

ExecutedStatuses == {"completed", "failed", "timeout", "error"}

\* C4: in every step of the engine, a step of the plan has status completed,
\* failed, timeout or error only if its command was handed to subprocess.run,
\* and a step turns skipped_unsafe only in an execute_remediation call with
\* force=False, its safety check saying unsafe.
C4_StatusReflectsDispatch ==
  [][plan' # None =>
       \A i \in DOMAIN plan'.remediation_steps :
         LET step == plan'.remediation_steps[i]
         IN /\ step.status \in ExecutedStatuses => i \in dispatched'
            /\ (/\ step.status = "skipped_unsafe"
                /\ (plan = None \/ plan.remediation_steps[i].status # "skipped_unsafe"))
                 => (/\ ~step.safety_check.safe
                     /\ call'.op = "execute_remediation"
                     /\ ~call'.force)]_vars

\* one unforced call both ran a step and skipped an unsafe one
C4_Witness ==
  /\ Called("execute_remediation") /\ ~call.force
  /\ \E i, j \in DOMAIN Steps :
       /\ Steps[i].status \in ExecutedStatuses /\ i \in call.run
       /\ Steps[j].status = "skipped_unsafe" /\ ~Steps[j].safety_check.safe
       /\ call.before[j].status = "pending"

(***************************************************************************)
(* Scoring and selection                                                   *)
(***************************************************************************)
\* the pattern the last recognize_issue_pattern call scored k-th
Scored(k) == knowledge_base[k]

\* C7: every confidence recognize_issue_pattern computes, and the confidence
\* of the match it returns, lies between 0.0 and 1.0.
C7_ConfidenceInUnitInterval ==
  Called("recognize_issue_pattern") =>
    /\ \A k \in DOMAIN knowledge_base : call.confidence[k] \in 0..Scale
    /\ match # None => match.confidence \in 0..Scale

\* a pattern whose terms add up to more than 1.0 was scored 1.0
C7_Witness ==
  /\ Called("recognize_issue_pattern")
  /\ \E k \in DOMAIN knowledge_base :
       /\ Scored(k).confidence_base
            + (4 * Scale) \div 10 + (3 * Scale) \div 10 + (15 * Scale) \div 100 > Scale
       /\ Len(matched_keywords(Scored(k), lower(call.user_input))) = Len(Scored(k).keywords)
       /\ Len(matched_regex(Scored(k), lower(call.user_input)))
            = Len(Scored(k).regex_patterns)
       /\ has_similar_issue(data, signature_id(Scored(k)))
       /\ call.confidence[k] = Scale

\* the keywords of the pattern that occur in the text, whatever the case
KeywordsIn(pattern, text) ==
  {i \in DOMAIN pattern.keywords : contains(lower(pattern.keywords[i]), lower(text))}

\* the regex patterns of the pattern found in the text, whatever the case
RegexesIn(pattern, text) ==
  {i \in DOMAIN pattern.regex_patterns :
     re_search(pattern.regex_patterns[i].atoms, lower(text))}

\* the store holds an occurrence under category_name of the pattern
HasHistory(pattern) ==
  LET signature == replace(lower(pattern.category), " ", "_") \o <<"_">>
                   \o replace(lower(pattern.name), " ", "_")
  IN /\ signature \in DOMAIN data.issue_history
     /\ data.issue_history[signature].occurrences # << >>

Clamp(x, lo, hi) == IF x < lo THEN lo ELSE IF x > hi THEN hi ELSE x

\* C8: the confidence of every pattern is base + 0.4 * matched/total keywords
\* + 0.3 * matched/total regexes + 0.15 if the store has an occurrence for the
\* pattern's signature + the context boost, clamped to [0, 1]; "pod crash
\* loop" against base 0.3, keywords pod and crash, one regex of two, with no
\* history and no context scores 0.85.
C8_ConfidenceFormula ==
  Called("recognize_issue_pattern") =>
    /\ \A k \in DOMAIN knowledge_base :
         LET P == Scored(k)
             keyword_term == (4 * Scale * Cardinality(KeywordsIn(P, call.user_input)))
                               \div (10 * Len(P.keywords))
             regex_term == (3 * Scale * Cardinality(RegexesIn(P, call.user_input)))
                             \div (10 * Len(P.regex_patterns))
             historical == IF HasHistory(P) THEN (15 * Scale) \div 100 ELSE 0
             context == IF is_given(call.system_context)
                        THEN calculate_context_relevance(P, call.system_context)
                        ELSE 0
         IN call.confidence[k] =
              Clamp(P.confidence_base + keyword_term + regex_term + historical + context,
                    0, Scale)
    /\ (/\ call.user_input = txt_crash_loop
        /\ call.system_context = None
        /\ ~HasHistory(Scored(1)))
         => call.confidence[1] = (85 * Scale) \div 100

\* a pattern with history was scored with the 0.15 on top: "Pod" against
\* Pod Crash gives 0.3 + 0.4 * 1/2 + 0.15
C8_Witness ==
  /\ Called("recognize_issue_pattern")
  /\ call.user_input = txt_pod
  /\ call.system_context = None
  /\ HasHistory(Scored(1))
  /\ call.confidence[1] = (65 * Scale) \div 100

\* the patterns scored above the threshold by the last call
AboveThreshold == {k \in DOMAIN knowledge_base : call.confidence[k] > Scale \div 2}

\* C9: recognize_issue_pattern returns the pattern of highest confidence among
\* those above 0.5, the first of them in catalog order on a tie, with that
\* pattern's matched keywords and regexes, and None when no pattern is above
\* 0.5.
C9_BestAboveThreshold ==
  Called("recognize_issue_pattern") =>
    IF AboveThreshold = {} THEN match = None
    ELSE LET best == CHOOSE k \in AboveThreshold :
                       \A j \in AboveThreshold :
                         /\ call.confidence[j] <= call.confidence[k]
                         /\ call.confidence[j] = call.confidence[k] => k <= j
         IN /\ match # None
            /\ match.pattern = best
            /\ match.confidence = call.confidence[best]
            /\ Range(match.matched_keywords) =
                 {Scored(best).keywords[i] : i \in KeywordsIn(Scored(best), call.user_input)}
            /\ Range(match.matched_regex) =
                 {Scored(best).regex_patterns[i].src :
                    i \in RegexesIn(Scored(best), call.user_input)}

\* two patterns tied above the threshold and the first of them was returned
C9_Witness ==
  /\ Called("recognize_issue_pattern")
  /\ \E j, k \in AboveThreshold :
       /\ j < k
       /\ call.confidence[j] = call.confidence[k]
       /\ \A i \in AboveThreshold : call.confidence[i] <= call.confidence[j]
       /\ match # None
       /\ match.pattern = j

(***************************************************************************)
(* Learning                                                                *)
(***************************************************************************)
\* the catalog pattern the plan was generated from
PlanPattern == knowledge_base[match.pattern]

\* C10 as stated: once execute_remediation has run on a plan built from a
\* pattern, the store has an occurrence under the pattern's signature
\* (category_name), so that the next scoring of the pattern gets the 0.15.
C10_LearningUnderSignature ==
  Called("execute_remediation") =>
    /\ has_similar_issue(data, signature_id(PlanPattern))
    /\ historical_boost(data, PlanPattern) = historical_match

\* execute_remediation has stored its record, and the store still has nothing
\* under the signature of the pattern
C10_Witness ==
  /\ Called("execute_remediation")
  /\ has_similar_issue(data, learning_id(plan.issue_summary.pattern_name))
  /\ ~has_similar_issue(data, signature_id(PlanPattern))
  /\ ~has_similar_issue(data, PlanPattern.key)

(***************************************************************************)
(* The execution log                                                       *)
(***************************************************************************)
\* the occurrence the last execute_remediation call stored
Learned ==
  LET window == data.issue_history[learning_id(plan.issue_summary.pattern_name)].occurrences
  IN window[Len(window)]

\* C11 as stated: the overall_success of an execute_remediation call, which
\* is the success of the learning record it stores, is true exactly when no
\* step the call attempted ended failed, timeout or error.
C11_OverallSuccessIsAnd ==
  Called("execute_remediation") =>
    /\ Learned.success = call.overall_success
    /\ call.overall_success =
         (\A k \in DOMAIN call.executed_steps :
            call.executed_steps[k].status \notin {"failed", "timeout", "error"})

\* a call in which a step timed out reported overall_success and stored a
\* successful learning record
C11_Witness ==
  /\ Called("execute_remediation")
  /\ \E k \in DOMAIN call.executed_steps : call.executed_steps[k].status = "timeout"
  /\ call.overall_success
  /\ Learned.success

(***************************************************************************)
(* Auto-execution in generate_remediation_plan                             *)
(***************************************************************************)
\* C12 as stated: generate_remediation_plan hands a step to subprocess.run
\* exactly when auto_execute is true and the step's safety check reports
\* SAFE; with auto_execute false nothing is handed over and every step is
\* pending.
C12_AutoRunsIffCheckedSafe ==
  Called("generate_remediation_plan") =>
    /\ \A i \in DOMAIN Steps :
         (i \in call.run) <=>
           (call.auto_execute /\ Steps[i].safety_check.risk_level = "SAFE")
    /\ ~call.auto_execute =>
         (call.run = {} /\ \A i \in DOMAIN Steps : Steps[i].status = "pending")

\* C12, amended: generate_remediation_plan hands a step to subprocess.run, and
\* the step gets the status of that run, exactly when auto_execute is true,
\* the safety check says safe, the declared level is SAFE and the command
\* does not start with "sudo"; a sudo command that passes the other three
\* tests becomes skipped; every other step is pending, as is every step when
\* auto_execute is false.
C12_AutoRunsSafeDeclaredSafe ==
  Called("generate_remediation_plan") =>
    /\ \A i \in DOMAIN Steps :
         LET passes == /\ call.auto_execute
                       /\ Steps[i].safety_check.safe
                       /\ Steps[i].safety_level = "SAFE"
             sudoed == SubSeq(Steps[i].command, 1, 4) = <<"s", "u", "d", "o">>
         IN /\ (i \in call.run) <=> (passes /\ ~sudoed)
            /\ (Steps[i].status \in ExecutedStatuses) <=> (passes /\ ~sudoed)
            /\ (Steps[i].status = "skipped") <=> (passes /\ sudoed)
            /\ (Steps[i].status = "pending") <=> ~passes
    /\ ~call.auto_execute =>
         (call.run = {} /\ \A i \in DOMAIN Steps : Steps[i].status = "pending")

\* an auto-executing generation ran one step and left pending another whose
\* safety check reports SAFE
C12_Witness ==
  /\ Called("generate_remediation_plan")
  /\ call.auto_execute
  /\ \E i, j \in DOMAIN Steps :
       /\ i \in call.run /\ Steps[i].status \in ExecutedStatuses
       /\ Steps[j].safety_check.risk_level = "SAFE"
       /\ j \notin call.run /\ Steps[j].status = "pending"

(***************************************************************************)
(* The statistics of a signature                                           *)
(***************************************************************************)
\* the trend the gap between the two latest timestamps of a window stands
\* for, the gap being measured in hours
TrendOfGap(occurrences) ==
  LET latest == SortDesc(Timestamps(occurrences))
  IN IF Len(occurrences) < 2 THEN "stable"
     ELSE IF latest[1] - latest[2] < 7 * HoursPerDay THEN "increasing"
     ELSE IF latest[1] - latest[2] > 30 * HoursPerDay THEN "decreasing"
     ELSE "stable"

\* C13 as stated: the frequency_trend of every signature is the one the gap
\* between its two most recent occurrences' timestamps stands for:
\* increasing under 7 days, decreasing over 30 days, stable otherwise and
\* for a single occurrence.
C13_TrendFromLatestGap ==
  \A issue_id \in DOMAIN data.issue_history :
    data.issue_history[issue_id].patterns.frequency_trend = TrendOfGap(Window(issue_id))

\* the two occurrences recorded last lie more than 30 days apart, the later
\* one recorded first, and the trend reads increasing
C13_Witness ==
  \E issue_id \in DOMAIN data.issue_history :
    LET window == Window(issue_id)
        n == Len(window)
    IN /\ n >= 2
       /\ window[n - 1].timestamp - window[n].timestamp > 30 * HoursPerDay
       /\ data.issue_history[issue_id].patterns.frequency_trend = "increasing"

\* the occurrences of a window that succeeded
Succeeded(occurrences) == SelectSeq(occurrences, LAMBDA occ : occ.success)

\* C14 as stated: in every state of the store the patterns of every
\* signature are the statistics of its current window: success_rate is
\* successes over total, avg_resolution_time the (whole-number) mean over the
\* successful occurrences, common_causes the distinct causes other than
\* "Unknown", and trend and seasonal pattern those of the window's
\* timestamps.
C14_StatsOfWindow ==
  \A issue_id \in DOMAIN data.issue_history :
    LET window == Window(issue_id)
        stats == data.issue_history[issue_id].patterns
        times == [i \in DOMAIN Succeeded(window) |-> Succeeded(window)[i].resolution_time]
    IN /\ stats.success_rate * Len(window) = Scale * Len(Succeeded(window))
       /\ stats.avg_resolution_time =
            (IF times = << >> THEN 0 ELSE SumSeq(times) \div Len(times))
       /\ Range(stats.common_causes) =
            {window[i].root_cause : i \in {j \in DOMAIN window : window[j].root_cause # "Unknown"}}
       /\ Len(stats.common_causes) = Cardinality(Range(stats.common_causes))
       /\ (\A i \in DOMAIN window : parses(window[i].timestamp)) =>
            /\ stats.frequency_trend = frequency_trend(window)
            /\ stats.seasonal_pattern = detect_seasonal_pattern(window)

\* a successful occurrence whose timestamp is not a date was recorded last,
\* and the success rate is still that of the window before it
C14_Witness ==
  \E issue_id \in DOMAIN data.issue_history :
    LET window == Window(issue_id)
    IN /\ Len(window) = 2
       /\ ~window[1].success
       /\ window[2].success /\ ~parses(window[2].timestamp)
       /\ data.issue_history[issue_id].patterns.success_rate = 0
       /\ file = data

\* C15: a prediction never has a confidence above 0.95, and for a signature
\* with no occurrences or no successful occurrence it is one of the two
\* insufficient-data results, with a confidence of at most 0.2.
C15_PredictionBounded ==
  Called("predict_root_cause") =>
    LET known == call.issue_id \in DOMAIN data.issue_history
        successful == IF known THEN Succeeded(Window(call.issue_id)) ELSE << >>
    IN /\ call.result.confidence * 100 <= 95 * Scale
       /\ successful = << >> =>
            /\ call.result.cause \in {"No historical data available",
                                      "No successful resolutions in history"}
            /\ call.result.confidence * 10 <= 2 * Scale

\* a prediction for a signature whose window holds only successful
\* resolutions recorded with confidence 1.0: the weighted score is 1.0 and the
\* prediction says 0.95
C15_Witness ==
  /\ Called("predict_root_cause")
  /\ call.issue_id \in DOMAIN data.issue_history
  /\ Len(Window(call.issue_id)) >= 2
  /\ \A i \in DOMAIN Window(call.issue_id) :
       Window(call.issue_id)[i].success /\ Window(call.issue_id)[i].confidence_score = Scale
  /\ data.issue_history[call.issue_id].patterns.success_rate = Scale
  /\ call.result.cause = "System remediation"
  /\ call.result.confidence * 100 = 95 * Scale

\* the occurrences of a store, per issue id; none for an absent file
OccurrencesOf(store) ==
  IF store = None THEN << >>
  ELSE [issue_id \in DOMAIN store.issue_history |-> store.issue_history[issue_id].occurrences]

\* C16 as stated: when the process has stopped, at whatever statement of the
\* save, the file holds a whole store, the one saved before the mutation or
\* the one after it, and the process started again has every occurrence
\* that was persisted.
C16_CrashLeavesWholeStore ==
  /\ pc = "down" =>
       /\ file = None \/ parses_as_json(file)
       /\ Called("track_issue") => file \in {call.persisted, data}
  /\ Called("restart") =>
       \A issue_id \in DOMAIN OccurrencesOf(call.persisted) :
         /\ issue_id \in DOMAIN data.issue_history
         /\ \A i \in DOMAIN OccurrencesOf(call.persisted)[issue_id] :
              \E j \in DOMAIN Window(issue_id) :
                Window(issue_id)[j] = OccurrencesOf(call.persisted)[issue_id][i]

\* the process stopped between open() and the end of json.dump while the
\* file held occurrences, and was started again: its store is the default
\* one and the file holds no store
C16_Witness ==
  /\ Called("restart")
  /\ call.persisted # None
  /\ DOMAIN call.persisted.issue_history # {}
  /\ file = truncated
  /\ data = create_default_structure

\* both threads have returned from track_issue
BothDone == threads # << >> /\ \A t \in Threads : threads[t].pc = "done"

\* the occurrence thread t recorded is in the window of the store
Kept(t) ==
  /\ race_id \in DOMAIN data.issue_history
  /\ \E i \in DOMAIN Window(race_id) :
       Window(race_id)[i] = new_occurrence(RaceInputs[t], 0)

\* C17 as stated: when two concurrent track_issue calls for one issue id have
\* both returned, both occurrences are in the window, the patterns are the
\* statistics of that window, and the file holds the store.
C17_NoLostOccurrence ==
  BothDone =>
    /\ \A t \in Threads : Kept(t)
    /\ \E cause_order \in Orderings(known_causes(Window(race_id))) :
         data.issue_history[race_id].patterns = update_patterns(Window(race_id), cause_order)
    /\ file = data

\* both calls have returned and the occurrence of one of them is in neither
\* the window nor the file
C17_Witness ==
  /\ BothDone
  /\ \E t \in Threads : ~Kept(t)
  /\ Len(recorded[race_id]) >= 2
  /\ file = data

\* some step of the assessed list has the declared level given
AnyStep(level) ==
  \E i \in DOMAIN call.steps : call.steps[i].safety_level = level

\* C18: the assessment of a plan's steps says HIGH if a step is declared
\* HIGH, else MEDIUM if a step is declared MEDIUM, else LOW, and requires
\* confirmation exactly when some step is not declared SAFE.
C18_AssessmentFromLevels ==
  Called("assess_overall_safety") =>
    /\ call.safety_assessment.overall_risk =
         (IF AnyStep("HIGH") THEN "HIGH" ELSE IF AnyStep("MEDIUM") THEN "MEDIUM" ELSE "LOW")
    /\ call.safety_assessment.requires_confirmation
         <=> (\E i \in DOMAIN call.steps : call.steps[i].safety_level # "SAFE")

\* a list with a MEDIUM step and no HIGH step: assessed MEDIUM, confirmation
\* required
C18_Witness ==
  /\ Called("assess_overall_safety")
  /\ Len(call.steps) = 3
  /\ AnyStep("MEDIUM") /\ AnyStep("SAFE") /\ ~AnyStep("HIGH")
  /\ call.safety_assessment.overall_risk = "MEDIUM"
  /\ call.safety_assessment.requires_confirmation

\* an entry of a patterns file that lacks a required field or has an empty
\* keyword or regex list
Malformed(pattern_data) ==
  \/ ~(required_fields \subseteq DOMAIN pattern_data)
  \/ pattern_data.keywords = << >>
  \/ pattern_data.regex_patterns = << >>

\* C19 as stated, a load that ends with no catalog being counted as a failed
\* load: a missing file or a file with a malformed entry is not loaded, and
\* no loaded catalog has a pattern with an empty keyword or regex list.
C19_MalformedCatalogNotLoaded ==
  Called("load_knowledge_base") =>
    /\ (\/ ~call.source.exists
        \/ \E i \in DOMAIN call.source.patterns : Malformed(call.source.patterns[i]))
         => call.knowledge_base = << >>
    /\ \A i \in DOMAIN call.knowledge_base :
         /\ call.knowledge_base[i].keywords # << >>
         /\ call.knowledge_base[i].regex_patterns # << >>

\* a file whose entries have every field, one of them with an empty keyword
\* list, was loaded, and the catalog holds that pattern
C19_Witness ==
  /\ Called("load_knowledge_base")
  /\ call.source.exists
  /\ \A i \in DOMAIN call.source.patterns : required_fields \subseteq DOMAIN call.source.patterns[i]
  /\ \E i \in DOMAIN call.knowledge_base : call.knowledge_base[i].keywords = << >>

\* the statuses a step of a plan can have
StepStatuses ==
  {"pending", "completed", "failed", "timeout", "error", "skipped_unsafe", "skipped"}

\* the step numbers in the execution log of the last execute_remediation
LoggedSteps == {call.executed_steps[i].step_number : i \in DOMAIN call.executed_steps}

Seen == current(data, match.historical_context)

\* C21 as stated: while a MatchResult is held, no step changes the
\* occurrences or the patterns seen through its historical context.
C21_ContextIsSnapshot ==
  [][(match # None /\ match' = match) =>
       current(data', match'.historical_context) = current(data, match.historical_context)]_vars

\* a match whose context was taken from a store that knew the issue id, and
\* a later track_issue under that id: the context seen through the match
\* holds the occurrence recorded after the match was returned
C21_Witness ==
  /\ match # None
  /\ match.historical_context.live
  /\ Called("track_issue")
  /\ call.issue_id = match.historical_context.issue_id
  /\ Len(Seen.occurrences) = 2
  /\ match.root_cause_prediction.text = "Most likely cause"

\* the causes of the successful occurrences of the window predicted for
PredictedCauses ==
  {Succeeded(Window(call.issue_id))[i].root_cause : i \in DOMAIN Succeeded(Window(call.issue_id))}

\* ten times the score of a cause, as the formula of C22 gives it, with the
\* recency weight given for a cause absent from the last occurrences
TenfoldScore(cause, absent_weight) ==
  LET window == Window(call.issue_id)
      successful == Succeeded(window)
      with_cause == SelectSeq(successful, LAMBDA occ : occ.root_cause = cause)
      last == LastN(window, IF Len(window) < 2 THEN Len(window) ELSE 2)
      recent == SelectSeq(last, LAMBDA occ : occ.root_cause = cause)
      freq_weight == (Len(with_cause) * Scale) \div Len(successful)
      confidence_weight ==
        SumSeq([i \in DOMAIN with_cause |-> with_cause[i].confidence_score]) \div Len(with_cause)
      recency_weight == IF recent = << >> THEN absent_weight
                        ELSE (Len(recent) * Scale) \div Len(last)
  IN 3 * freq_weight + confidence_weight + 2 * recency_weight
     + 4 * data.issue_history[call.issue_id].patterns.success_rate

\* the prediction is the cause of maximal score, with min(score, 0.95)
PredictsBest(absent_weight) ==
  (/\ Called("predict_root_cause")
   /\ call.issue_id \in DOMAIN data.issue_history
   /\ Succeeded(Window(call.issue_id)) # << >>) =>
    /\ call.result.cause \in PredictedCauses
    /\ \A cause \in PredictedCauses :
         TenfoldScore(cause, absent_weight) <= TenfoldScore(call.result.cause, absent_weight)
    /\ 10 * call.result.confidence =
         (IF TenfoldScore(call.result.cause, absent_weight) * 10 < 95 * Scale
          THEN TenfoldScore(call.result.cause, absent_weight) ELSE (95 * Scale) \div 10)

\* C22 as stated: the recency weight of a cause absent from the last
\* min(2, total) occurrences is 0.
C22_PredictsBestRecencyFromZero == PredictsBest(0)

\* C22: predict returns the cause of maximal score 0.3 freq + 0.1 confidence
\* + 0.2 recency + 0.4 success rate and the confidence min(score, 0.95), the
\* recency weight of a cause absent from the last min(2, total) occurrences
\* being 0.1.
C22_PredictsBestRecencyFloor == PredictsBest(Scale \div 10)

\* a prediction for a window of three whose only successful occurrence is the
\* oldest: its cause is absent from the last two
C22_Witness ==
  /\ Called("predict_root_cause")
  /\ call.issue_id \in DOMAIN data.issue_history
  /\ Len(Window(call.issue_id)) = 3
  /\ Window(call.issue_id)[1].success
  /\ ~Window(call.issue_id)[2].success /\ ~Window(call.issue_id)[3].success
  /\ call.result.cause = Window(call.issue_id)[1].root_cause
  /\ call.result.confidence * 100 < 95 * Scale

\* C23: an execute_remediation call hands to the executor only steps that
\* were requested and whose status before the call was neither completed
\* nor skipped (so a completed step is never run again, by whatever call
\* completed it), and leaves every step that was not requested as it was.
C23_RunsRequestedUnfinishedOnly ==
  Called("execute_remediation") =>
    /\ \A i \in call.run :
         /\ Requested(i)
         /\ call.before[i].status \notin {"completed", "skipped"}
    /\ \A i \in DOMAIN Steps :
         ~Requested(i) =>
           /\ Steps[i].status = call.before[i].status
           /\ Steps[i].output = call.before[i].output
           /\ Steps[i] = call.before[i]

\* a call for all steps of a plan whose first step was completed before: the
\* first step is not run again, a later one is
C23_Witness ==
  /\ Called("execute_remediation")
  /\ Requested(1) /\ Requested(2)
  /\ call.before[1].status = "completed"
  /\ 1 \in dispatched
  /\ 1 \notin call.run
  /\ 2 \in call.run

\* C24 as stated: an unforced execute_remediation hands to the executor only
\* steps whose command, as it is when the call is made, the validator
\* classifies safe.
C24_UnforcedRunsCurrentlySafe ==
  (Called("execute_remediation") /\ ~call.force) =>
    \A i \in call.run :
      validate_command(call.before[i].command, call.before[i].safety_level).safe

\* an unforced call ran "rm -rf /", written into a step whose stored safety
\* check, computed for the command the step had at generation, says safe
C24_Witness ==
  /\ Called("execute_remediation")
  /\ ~call.force
  /\ \E i \in call.run :
       /\ call.before[i].command = cmd_rm_root
       /\ call.before[i].safety_check.safe
       /\ Steps[i].status = "completed"

InBusinessHours(timestamp) ==
  9 <= timestamp % HoursPerDay /\ timestamp % HoursPerDay <= 17

OnWeekend(timestamp) == (timestamp \div HoursPerDay) % 7 >= 5

AtNight(timestamp) ==
  timestamp % HoursPerDay >= 22 \/ timestamp % HoursPerDay <= 6

\* more than percent % of the occurrences of the window are in the class
MoreThan(window, InClass(_), percent) ==
  100 * Cardinality({i \in DOMAIN window : InClass(window[i].timestamp)})
    > percent * Len(window)

AllParse(window) == \A i \in DOMAIN window : parses(window[i].timestamp)

\* the values the 70% rule allows for a window of dates
SeventyPercentAllows(window) ==
  LET classes == (IF MoreThan(window, InBusinessHours, 70) THEN {"business_hours"} ELSE {})
                 \cup (IF MoreThan(window, OnWeekend, 70) THEN {"weekends"} ELSE {})
                 \cup (IF MoreThan(window, AtNight, 70) THEN {"maintenance_windows"} ELSE {})
  IN IF Len(window) < 2 \/ classes = {} THEN {"none"} ELSE classes

\* business hours, then weekends, at more than 70%; then nights at more than
\* 50%; none for fewer than 2 occurrences or a timestamp that is not a date
SeasonalRule(window) ==
  IF Len(window) < 2 \/ ~AllParse(window) THEN "none"
  ELSE IF MoreThan(window, InBusinessHours, 70) THEN "business_hours"
  ELSE IF MoreThan(window, OnWeekend, 70) THEN "weekends"
  ELSE IF MoreThan(window, AtNight, 50) THEN "maintenance_windows"
  ELSE "none"

\* C25 as stated: after every track_issue, seasonal_pattern of a signature
\* is business_hours, weekends or maintenance_windows only if more than 70%
\* of the occurrences of its window are in that class, and none otherwise
\* (none too for fewer than 2 occurrences). Stated for windows of dates.
C25_SeasonalSeventyPercent ==
  Called("track_issue") =>
    LET window == Window(call.issue_id)
    IN AllParse(window) =>
         data.issue_history[call.issue_id].patterns.seasonal_pattern
           \in SeventyPercentAllows(window)

\* C25, amended: a track_issue that recomputes the statistics stores
\* business_hours if more than 70% of the window is at hours 9..17, else
\* weekends if more than 70% is on Saturday or Sunday, else
\* maintenance_windows if more than 50% is at hours 22..6, else none; none
\* too for fewer than 2 occurrences or a timestamp that is not a date. A
\* track_issue that does not recompute them leaves the value it found.
C25_SeasonalRule ==
  [][(call' # None /\ call'.op = "track_issue") =>
       LET issue_id == call'.issue_id
           window == data'.issue_history[issue_id].occurrences
           stored == data'.issue_history[issue_id].patterns.seasonal_pattern
       IN IF update_patterns_raises(window)
          THEN stored = IF issue_id \in DOMAIN data.issue_history
                        THEN data.issue_history[issue_id].patterns.seasonal_pattern
                        ELSE "none"
          ELSE stored = SeasonalRule(window)]_vars

\* two of the three occurrences of the window are at night, one is on a
\* weekday morning, and the signature is marked maintenance_windows
C25_Witness ==
  /\ Called("track_issue")
  /\ LET window == Window(call.issue_id)
     IN /\ Len(window) = 3
        /\ AllParse(window)
        /\ Cardinality({i \in DOMAIN window : AtNight(window[i].timestamp)}) = 2
        /\ \E i \in DOMAIN window : InBusinessHours(window[i].timestamp)
        /\ data.issue_history[call.issue_id].patterns.seasonal_pattern = "maintenance_windows"

\* the subsystem flag of the pattern's category is set in the context
FlagSignal(pattern, system_context) ==
  \/ pattern.category = cat_kubernetes
     /\ Get(system_context, "kubernetes_available", FALSE)
  \/ pattern.category = cat_ubuntu_os
     /\ Get(system_context, "os_type", "") = "ubuntu"
  \/ pattern.category = cat_glusterfs
     /\ Get(system_context, "gluster_available", FALSE)

\* pod errors in the context, for a Kubernetes pattern about pods
PodErrorSignal(pattern, system_context) ==
  /\ pattern.category = cat_kubernetes
  /\ contains(<<"p","o","d">>, lower(pattern.name))
  /\ Get(system_context, "pod_errors", 0) > 0

\* disk usage above 80% in the context, for the disk space pattern
DiskUsageSignal(pattern, system_context) ==
  /\ pattern.category = cat_ubuntu_os
  /\ pattern.name = name_disk_space_issues
  /\ Get(system_context, "disk_usage", 0) > 80

\* the boost when the three signals are worth flag, pod and disk (in 1/Scale),
\* the total capped at 0.10; 0 with no context
BoostBy(pattern, system_context, flag, pod, disk) ==
  IF system_context = None \/ DOMAIN system_context = {} THEN 0
  ELSE LET total == (IF FlagSignal(pattern, system_context) THEN flag ELSE 0)
                    + (IF PodErrorSignal(pattern, system_context) THEN pod ELSE 0)
                    + (IF DiskUsageSignal(pattern, system_context) THEN disk ELSE 0)
       IN IF total > Scale \div 10 THEN Scale \div 10 ELSE total

\* C26 as stated: context_boost is the sum of the signals that apply, each
\* worth exactly 0.05, never above 0.10, and 0 with no live context.
C26_EachSignalOneTwentieth ==
  Called("context_boost") =>
    call.context_boost
      = BoostBy(call.pattern, call.system_context,
                Scale \div 20, Scale \div 20, Scale \div 20)

\* C26, amended: the subsystem flag and the pod error signal are worth 0.05
\* each and the disk usage signal 0.10; context_boost is their sum capped at
\* 0.10, and 0 with no live context.
C26_DiskSignalOneTenth ==
  Called("context_boost") =>
    call.context_boost
      = BoostBy(call.pattern, call.system_context,
                Scale \div 20, Scale \div 20, Scale \div 10)

\* the disk space pattern with disk usage above 80% on a host that is not
\* reported as ubuntu: one signal, a boost of 0.10
C26_Witness ==
  /\ Called("context_boost")
  /\ call.system_context # None
  /\ DiskUsageSignal(call.pattern, call.system_context)
  /\ ~FlagSignal(call.pattern, call.system_context)
  /\ call.context_boost = Scale \div 10

\* C27 as stated: when the classification raises on a malformed command the
\* result is unsafe, of risk tier HIGH, with confirmation required; and no
\* result has a risk tier outside SAFE, MEDIUM, HIGH.
C27_ErrorIsHigh ==
  checked # None =>
    /\ checked.result.risk_level \in SafetyLevels
    /\ ~is_str(checked.command) =>
         /\ ~checked.result.safe
         /\ checked.result.risk_level = "HIGH"
         /\ checked.result.requires_confirmation

\* the validator was given a command that is not a str and answered through
\* its except branch: unsafe, confirmation required, risk tier UNKNOWN
C27_Witness ==
  /\ checked # None
  /\ ~is_str(checked.command)
  /\ ~checked.result.safe
  /\ checked.result.requires_confirmation
  /\ checked.result.risk_level = "UNKNOWN"

\* the first four characters of the command are s, u, d, o
StartsWithSudo(command) ==
  Len(command) >= 4 /\ SubSeq(command, 1, 4) = <<"s","u","d","o">>

\* C28: a step whose command starts with "sudo" is never handed to the
\* executor, by an auto-executing generate_remediation_plan or by any
\* execute_remediation, forced or not; a call that comes to run it gives it
\* the status skipped; and a call that finds it skipped leaves it alone.
C28_SudoNeverDispatched ==
  plan # None =>
    \A i \in DOMAIN Steps :
      StartsWithSudo(Steps[i].command) =>
        /\ i \notin dispatched
        /\ Steps[i].status \in {"pending", "skipped", "skipped_unsafe"}
        /\ (Called("generate_remediation_plan") /\ call.auto_execute
              /\ Steps[i].safety_check.safe /\ Steps[i].safety_level = "SAFE")
             => Steps[i].status = "skipped"
        /\ (Called("execute_remediation") /\ Requested(i)
              /\ (call.force \/ call.before[i].safety_check.safe))
             => Steps[i].status = "skipped"
        /\ (Called("execute_remediation") /\ call.before[i].status = "skipped")
             => /\ i \notin call.run
                /\ i \notin LoggedSteps
                /\ Steps[i] = call.before[i]

\* a forced call for all steps came to the pending sudo step of the disk
\* space plan: the step is skipped and was not run, the step before it was
C28_Witness ==
  /\ Called("execute_remediation")
  /\ call.force
  /\ StartsWithSudo(Steps[2].command)
  /\ Requested(2)
  /\ call.before[2].status = "pending"
  /\ Steps[2].status = "skipped"
  /\ 2 \in LoggedSteps
  /\ 2 \notin dispatched
  /\ 1 \in call.run

\* the safety check stored with the step says unsafe or asks for confirmation
NeedsAttention(step) ==
  ~step.safety_check.safe \/ step.safety_check.requires_confirmation

\* C29 as stated: when the safety check of some step of a generated plan is
\* unsafe or requires confirmation, the plan's assessment requires
\* confirmation and its overall risk is not LOW.
C29_AssessmentFollowsChecks ==
  Called("assess_overall_safety") =>
    ((\E i \in DOMAIN call.steps : NeedsAttention(call.steps[i]))
       => /\ call.safety_assessment.requires_confirmation
          /\ call.safety_assessment.overall_risk # "LOW")

\* a plan whose only step is declared SAFE and has a command with a dangerous
\* signature: the check says unsafe, HIGH, confirmation required, and the
\* assessment says LOW and no confirmation
C29_Witness ==
  /\ Called("assess_overall_safety")
  /\ Len(call.steps) = 1
  /\ call.steps[1].safety_level = "SAFE"
  /\ matches_dangerous(call.steps[1].command)
  /\ ~call.steps[1].safety_check.safe
  /\ call.steps[1].safety_check.risk_level = "HIGH"
  /\ call.steps[1].safety_check.requires_confirmation
  /\ call.safety_assessment.overall_risk = "LOW"
  /\ ~call.safety_assessment.requires_confirmation

\* C30 as stated: the history file holds, for every signature, the
\* occurrences recorded through either manager, up to the eviction beyond 3:
\* the last 3 recorded, in recording order.
C30_FileKeepsAllRecorded ==
  \A issue_id \in DOMAIN recorded :
    /\ file # None
    /\ issue_id \in DOMAIN file.issue_history
    /\ file.issue_history[issue_id].occurrences = LastN(recorded[issue_id], 3)

\* the engine's manager recorded and saved an occurrence, then the agent's
\* manager recorded its first: the file holds the agent's occurrence alone
C30_Witness ==
  /\ Called("agent_track_issue")
  /\ Len(recorded[call.issue_id]) = 2
  /\ call.issue_id \in DOMAIN data.issue_history
  /\ data.issue_history[call.issue_id].occurrences = <<recorded[call.issue_id][1]>>
  /\ file = agent_data
  /\ file.issue_history[call.issue_id].occurrences = <<recorded[call.issue_id][2]>>

====
